---- MODULE Spec2Model ----
(***************************************************************************)
(* A model of package lifespan (the revision with context-carried ids):   *)
(*   - CentralMessageBus[T]: Register / Publish / Subscribe / Close and   *)
(*     the forwarding goroutine Register starts       (src/message_bus.go) *)
(*   - Run, LifeSpan.Close, LifeSpan.Error              (src/lifespan.go)  *)
(*   - Group: NewGroup, Start, Close              (src/unnamed/part_000)   *)
(*   - the Start that takes a log handler and an error bus                 *)
(*                                                    (src/group.go)       *)
(*   - Job.RunWithClose                                 (src/job.go)       *)
(*   - Logger: Handle, WithAttrs                        (src/logger.go)    *)
(*                                                                         *)
(* Goroutines are processes with a program position; channels are         *)
(* bounded FIFO queues with a closed flag.  A Go panic that nobody         *)
(* recovers ends the process: once panic is set no action is enabled.     *)
(*                                                                         *)
(* The specifications share the variables:                                 *)
(*   SpecBus    the bus alone, fed by source channels that their owners   *)
(*              write and close directly;                                  *)
(*   SpecSpan   tasks started by Run, their handles and the callers of    *)
(*              LifeSpan.Close (SpecSpanFair adds the scheduling);        *)
(*   SpecErr    tasks that report errors, the forwarders and the default  *)
(*              central error bus;                                         *)
(*   SpecCtx    Run and LifeSpan.Error under any context;                  *)
(*   SpecGroup  a Group of tasks that report an error when signalled, its *)
(*              owner and the default central error bus (SpecGroupFair    *)
(*              adds the scheduling);                                      *)
(*   SpecGroupClock  SpecGroup with a clock started by Group.Close;       *)
(*   SpecIds    a Group and calls of Run outside it;                       *)
(*   SpecStart  the Start that checks its collaborators;                   *)
(*   SpecNew    a bus made by NewCentralMessageBus with any size;          *)
(*   SpecSub    a bus read by several holders of Subscribe's channel;     *)
(*   SpecPoll   tasks whose work function polls Sig between sleeps        *)
(*              (SpecPollFair adds the scheduling);                       *)
(*   SpecJob    a Job run by RunWithClose and the signals it gets;         *)
(*   SpecLog    a Logger, its callers and the subscriber of its bus;       *)
(*   SpecShut   tasks started by Run while the default bus is closed.      *)
(***************************************************************************)
EXTENDS Integers, Sequences, FiniteSets, TLC

(* ------------------------------ bounds -------------------------------- *)

\* Source channels whose owners write and close them directly (SpecBus).
NSources == 2
\* Tasks started by Run that report errors (SpecErr).
NTasks == 2
\* Tasks started by Run whose handles are closed (SpecSpan).
NHandles == 1
\* Largest bufferSize handed to NewCentralMessageBus in SpecBus.
MaxBuf == 2
\* Messages handed to the bus in all: those the owners write into their
\* source channels and those given to Publish.
MaxMsgs == 2
\* Errors the work functions report through LifeSpan.Error, in all, counting
\* the direct Publish calls made before them (SpecErr).
MaxErrs == 4
\* Attributes a Logger stores, and attributes one slog record carries
\* (SpecLog).
MaxAttrs == 2
\* Logs the LogBus of a Logger holds (SpecLog); the code's is at least
\* defaultBufferSize.
LogBufferSize == 1
\* OS signals delivered to the process while a Job runs (SpecJob).
MaxSignals == 3
\* Calls of LifeSpan.Close made on one handle (SpecSpan).
MaxCloses == 2
\* The capacity standing in for defaultBufferSize (1024 in the source) of
\* the per-task error channel and of the default central bus.
BufferSize == 1

(* ---------------------------- constants ------------------------------- *)

\* Sig: make(chan struct{}, 1)
SigCap == 1
\* Ack: make(chan struct{}, 1)
AckCap == 1
\* time.After(3 * time.Second), in ticks of one second
Timeout == 3

Sources == 1..NSources
Tasks == 1..NTasks
Handles == 1..NHandles
\* Every channel and task of the model.
Ids == Sources \cup Tasks \cup Handles
\* Goroutines that call CentralMessageBus.Close.
BusClosers == {"k1", "k2"}
\* Goroutines that read the channel Subscribe returns.
Readers == {"r1", "r2"}
\* Goroutines that call LifeSpan.Close.
Callers == {"c1", "c2"}

\* What ended the process: the panic's message and the code that raised it.
NoPanic == [msg |-> "", by |-> ""]
\* panic("CentralMessageBus[T] is already closed")
RegisterPanic == [msg |-> "CentralMessageBus[T] is already closed", by |-> "Register"]
\* The runtime's panic for a send on a closed channel.
SendClosedPanic(who) == [msg |-> "send on closed channel", by |-> who]
\* The runtime's panic for a method call on a nil interface value.
NilDerefPanic(who) ==
    [msg |-> "invalid memory address or nil pointer dereference", by |-> who]
\* The runtime's panic for closing a closed channel.
CloseClosedPanic(who) == [msg |-> "close of closed channel", by |-> who]

\* The Error record: JobID, GroupID, Error (the timestamp is not modelled).
Error(j, g, e) == [JobID |-> j, GroupID |-> g, Error |-> e]

\* uuid.New().String() returns a value no earlier call returned.  The package
\* only stores and compares identifiers, so which value it is makes no
\* difference: the call made when the identifiers in used exist returns the
\* name made of their number plus one.
NewUUID(used) == "u" \o ToString(Cardinality(used) + 1)

\* The identifiers uuid.New() can have returned: each task is given one, or
\* two when both Start and Run mint one for it.
UUIDs == {"u" \o ToString(i) : i \in 1..(2 * NTasks + NSources + NHandles)}

\* What ctx.Value(key).(string) finds when ctx carries no string under key.
Absent == "<absent>"

\* A context, as far as this package reads it: the values under jobIDKey
\* and groupIDKey.
Ctx(j, g) == [job_id |-> j, group_id |-> g]

\* context.Background()
Background == Ctx(Absent, Absent)

\* A nil context.Context: an interface value that holds nothing.
NilContext == [nil |-> TRUE]

\* ctx == nil
IsNil(ctx) == DOMAIN ctx = {"nil"}

\* JobIDFromContext(ctx), and the same test inside LifeSpan.Error.
JobIDFromContext(ctx) == IF ctx.job_id = Absent THEN "" ELSE ctx.job_id

\* GroupIDFromContext(ctx), and the same test inside LifeSpan.Error.
GroupIDFromContext(ctx) == IF ctx.group_id = Absent THEN "" ELSE ctx.group_id

\* How a span.Close() call on task t ended: "ack" (a receive from Ack),
\* "timeout" (the timer, with its warning), "contention" (the default case,
\* with its warning); "waiting" while the call waits.
Returned(how, t) == [out |-> how, task |-> t]

\* Job.RunWithClose was not called: no channel holds a value and none of its
\* goroutines exists.  The fields closeChan, sig, ack and err count the
\* values buffered in the channels of those names; run, close and ctl are
\* the positions of the goroutine that calls j.Run, of the one that waits
\* for sig and calls j.Close, and of the control loop; signals counts the
\* OS signals delivered so far.
NotCalled ==
    [closeChan |-> 0, sig |-> 0, ack |-> 0, err |-> 0,
     run |-> "none", close |-> "none", ctl |-> "none", signals |-> 0]

\* NewLogger(bsize, opts): no stored attribute, an empty LogBus.
NewLogger == [attrs |-> <<>>, bus |-> <<>>]

\* What a function that returns an error has returned: nothing yet.
NoError == "<none>"

VARIABLES
    bufferSize,  \* cap(cb.bus)
    bus,         \* cb.bus: the messages buffered in the sink
    busClosed,   \* close(cb.bus) has run
    closed,      \* cb.closed
    wg,          \* cb.wg: the wait-group counter
    bpc,         \* position of each caller of CentralMessageBus.Close
    ch,          \* per source: the messages buffered in the source channel
    chClosed,    \* per source: the source channel is closed
    fwd,         \* per source: position of the forwarding goroutine
    held,        \* per source: the msg the forwarder took and has not sent
    sent,        \* per source: messages written into the source so far
    npub,        \* direct Publish calls made so far
    got,         \* per reader: the set of messages received from Subscribe()
    job,         \* per task: position of the goroutine Run starts
    Sig,         \* per task: values buffered in span.Sig
    Ack,         \* per task: values buffered in span.Ack
    ackClosed,   \* per task: close(span.Ack) has run
    ctxDone,     \* the context handed to Run is cancelled
    nclose,      \* per task: calls of span.Close() made so far
    call,        \* per caller: the span.Close() call it is in, if any
    res,         \* per caller: how its last span.Close() returned, or "waiting"
    jobID,       \* per task: the job_id value of the context its goroutine got
    groupID,     \* per task: the group_id value of that context
    unit,        \* per task: the unit of group.Jobs its goroutine runs, or 0
    UUID,        \* group.UUID
    Jobs,        \* len(group.Jobs); the units are 1..Jobs
    Spans,       \* group.Spans: the map from task id to handle
    gpc,         \* position of the goroutine that uses the group
    started,     \* units for which Start has completed its loop body
    visited,     \* entries the running Group.Close has called Close on
    clock,       \* seconds passed since Group.Close was called, while it runs
    startErr,    \* the error the Start that takes its collaborators returned
    rwc,         \* Job.RunWithClose: its channels and its goroutines' positions
    logger,      \* the Logger in use: its stored attributes and its LogBus
    panic        \* the panic that ended the process, or NoPanic

busVars == <<bufferSize, bus, busClosed, closed, wg, bpc>>
srcVars == <<ch, chClosed, fwd, held, sent>>
subVars == <<npub, got>>
spanVars == <<job, Sig, Ack, ackClosed, ctxDone>>
callVars == <<nclose, call, res>>
idVars == <<jobID, groupID, unit>>
groupVars == <<UUID, Jobs, Spans, gpc, started, visited, clock>>
cfgVars == <<startErr>>
restVars == <<cfgVars, rwc, logger>>
vars == <<busVars, srcVars, subVars, spanVars, callVars, idVars, groupVars, restVars,
          panic>>

Running == panic = NoPanic

\* The minted identifiers that exist: uuid.New() returns none of them again.
Minted == ({jobID[t] : t \in Ids} \cup DOMAIN Spans) \cap UUIDs

\* The context the goroutine of task t was started with.
TaskCtx(t) == Ctx(jobID[t], groupID[t])

\* The sum of f over the set S.
RECURSIVE Sum(_, _)
Sum(f, S) ==
    IF S = {} THEN 0
    ELSE LET x == CHOOSE y \in S : TRUE IN f[x] + Sum(f, S \ {x})

\* Messages handed to the bus so far: written into a source channel or given
\* to Publish.
Produced == Sum(sent, Ids) + npub

(* ------------------------- CentralMessageBus -------------------------- *)

\* NewCentralMessageBus(bufferSize): bus = make(chan T, bufferSize).
NewCentralMessageBus(size) ==
    /\ bufferSize = size
    /\ bus = <<>>
    /\ busClosed = FALSE
    /\ closed = FALSE
    /\ wg = 0
    /\ bpc = [k \in BusClosers |-> "idle"]

\* Register done wrong: the closed check is missing.
RegisterUnchecked(s) ==
    /\ wg' = wg + 1
    /\ fwd' = [fwd EXCEPT ![s] = "recv"]
    /\ panic' = panic

\* Register(ch), the whole critical section under cb.mu: panic when the bus is
\* closed, else wg.Add(1) and start the forwarding goroutine on ch.
Register(s) ==
    IF closed
    THEN /\ panic' = RegisterPanic
         /\ UNCHANGED <<wg, fwd>>
    ELSE /\ wg' = wg + 1
         /\ fwd' = [fwd EXCEPT ![s] = "recv"]
         /\ panic' = panic

\* FwdRecv done wrong: the loop ends as soon as ch is closed, whatever is
\* still buffered in it.
FwdRecvStopsOnClose(s) ==
    /\ Running
    /\ fwd[s] = "recv"
    /\ IF chClosed[s]
       THEN /\ fwd' = [fwd EXCEPT ![s] = "done"]
            /\ wg' = wg - 1
            /\ UNCHANGED <<ch, held>>
       ELSE /\ ch[s] # <<>>
            /\ held' = [held EXCEPT ![s] = <<Head(ch[s])>>]
            /\ ch' = [ch EXCEPT ![s] = Tail(ch[s])]
            /\ fwd' = [fwd EXCEPT ![s] = "send"]
            /\ UNCHANGED wg
    /\ UNCHANGED <<bufferSize, bus, busClosed, closed, bpc, chClosed, sent>>
    /\ UNCHANGED <<subVars, spanVars, callVars, panic>>
    /\ UNCHANGED <<idVars, groupVars, restVars>>

\* The forwarder's `for msg := range ch`: take the next message, or leave the
\* loop when ch is closed and drained and run the deferred cb.wg.Done().
FwdRecv(s) ==
    /\ Running
    /\ fwd[s] = "recv"
    /\ IF ch[s] # <<>>
       THEN /\ held' = [held EXCEPT ![s] = <<Head(ch[s])>>]
            /\ ch' = [ch EXCEPT ![s] = Tail(ch[s])]
            /\ fwd' = [fwd EXCEPT ![s] = "send"]
            /\ UNCHANGED wg
       ELSE /\ chClosed[s]
            /\ fwd' = [fwd EXCEPT ![s] = "done"]
            /\ wg' = wg - 1
            /\ UNCHANGED <<ch, held>>
    /\ UNCHANGED <<bufferSize, bus, busClosed, closed, bpc, chClosed, sent>>
    /\ UNCHANGED <<subVars, spanVars, callVars, panic>>
    /\ UNCHANGED <<idVars, groupVars, restVars>>

\* FwdSend done wrong: a send with a default case, as in Publish, so that the
\* message is dropped when the sink is full.
FwdSendOrDrop(s) ==
    /\ Running
    /\ fwd[s] = "send"
    /\ IF busClosed
       THEN /\ panic' = SendClosedPanic("forwarder")
            /\ UNCHANGED <<bus, fwd, held>>
       ELSE /\ bus' = IF Len(bus) < bufferSize THEN Append(bus, held[s][1]) ELSE bus
            /\ held' = [held EXCEPT ![s] = <<>>]
            /\ fwd' = [fwd EXCEPT ![s] = "recv"]
            /\ panic' = panic
    /\ UNCHANGED <<bufferSize, busClosed, closed, wg, bpc, ch, chClosed, sent>>
    /\ UNCHANGED <<subVars, spanVars, callVars>>
    /\ UNCHANGED <<idVars, groupVars, restVars>>

\* FwdSend done wrong: the message is put at the front of the sink's queue.
FwdSendJumps(s) ==
    /\ Running
    /\ fwd[s] = "send"
    /\ IF busClosed
       THEN /\ panic' = SendClosedPanic("forwarder")
            /\ UNCHANGED <<bus, fwd, held>>
       ELSE /\ Len(bus) < bufferSize
            /\ bus' = <<held[s][1]>> \o bus
            /\ held' = [held EXCEPT ![s] = <<>>]
            /\ fwd' = [fwd EXCEPT ![s] = "recv"]
            /\ panic' = panic
    /\ UNCHANGED <<bufferSize, busClosed, closed, wg, bpc, ch, chClosed, sent>>
    /\ UNCHANGED <<subVars, spanVars, callVars>>
    /\ UNCHANGED <<idVars, groupVars, restVars>>

\* FwdSend done wrong: when the sink is full the message takes the place of
\* the last one buffered.
FwdSendOverwrites(s) ==
    /\ Running
    /\ fwd[s] = "send"
    /\ IF busClosed
       THEN /\ panic' = SendClosedPanic("forwarder")
            /\ UNCHANGED <<bus, fwd, held>>
       ELSE /\ bus' = IF Len(bus) < bufferSize
                      THEN Append(bus, held[s][1])
                      ELSE Append(SubSeq(bus, 1, Len(bus) - 1), held[s][1])
            /\ held' = [held EXCEPT ![s] = <<>>]
            /\ fwd' = [fwd EXCEPT ![s] = "recv"]
            /\ panic' = panic
    /\ UNCHANGED <<bufferSize, busClosed, closed, wg, bpc, ch, chClosed, sent>>
    /\ UNCHANGED <<subVars, spanVars, callVars>>
    /\ UNCHANGED <<idVars, groupVars, restVars>>

\* The forwarder's `cb.bus <- msg`: a blocking send, which panics on a closed
\* channel.
FwdSend(s) ==
    /\ Running
    /\ fwd[s] = "send"
    /\ IF busClosed
       THEN /\ panic' = SendClosedPanic("forwarder")
            /\ UNCHANGED <<bus, fwd, held>>
       ELSE /\ Len(bus) < bufferSize
            /\ bus' = Append(bus, held[s][1])
            /\ held' = [held EXCEPT ![s] = <<>>]
            /\ fwd' = [fwd EXCEPT ![s] = "recv"]
            /\ panic' = panic
    /\ UNCHANGED <<bufferSize, busClosed, closed, wg, bpc, ch, chClosed, sent>>
    /\ UNCHANGED <<subVars, spanVars, callVars>>
    /\ UNCHANGED <<idVars, groupVars, restVars>>

\* Publish done wrong: a blocking send (no default case).
PublishBlocking(msg) ==
    /\ Len(bus) < bufferSize
    /\ bus' = Append(bus, msg)
    /\ panic' = panic

\* Publish(msg): select { case cb.bus <- msg: default: }.  A send on a closed
\* channel panics, inside a select too.
Publish(msg) ==
    IF busClosed
    THEN /\ panic' = SendClosedPanic("Publish")
         /\ bus' = bus
    ELSE /\ bus' = IF Len(bus) < bufferSize THEN Append(bus, msg) ELSE bus
         /\ panic' = panic

\* A goroutine calls Publish with a message of its own.
PublishCall ==
    /\ Running
    /\ Produced < MaxMsgs
    /\ Publish(Error("", "", npub + 1))
    /\ npub' = npub + 1
    /\ UNCHANGED <<bufferSize, busClosed, closed, wg, bpc>>
    /\ UNCHANGED <<srcVars, got, spanVars, callVars>>
    /\ UNCHANGED <<idVars, groupVars, restVars>>

\* Receive done wrong: a broadcast, in which a message stays in the sink until
\* every subscriber has received it.
ReceiveBroadcast(r) ==
    /\ Running
    /\ bus # <<>>
    /\ Head(bus) \notin got[r]
    /\ got' = [got EXCEPT ![r] = got[r] \cup {Head(bus)}]
    /\ bus' = IF \A o \in Readers \ {r} : Head(bus) \in got[o] THEN Tail(bus) ELSE bus
    /\ UNCHANGED <<bufferSize, busClosed, closed, wg, bpc>>
    /\ UNCHANGED <<srcVars, npub, spanVars, callVars, panic>>
    /\ UNCHANGED <<idVars, groupVars, restVars>>

\* A reader of Subscribe() (which returns cb.bus itself) receives one message.
Receive(r) ==
    /\ Running
    /\ bus # <<>>
    /\ got' = [got EXCEPT ![r] = got[r] \cup {Head(bus)}]
    /\ bus' = Tail(bus)
    /\ UNCHANGED <<bufferSize, busClosed, closed, wg, bpc>>
    /\ UNCHANGED <<srcVars, npub, spanVars, callVars, panic>>
    /\ UNCHANGED <<idVars, groupVars, restVars>>

\* CloseBegin done wrong: the closed flag is not looked at.
CloseBeginUnchecked(k) ==
    /\ bpc' = [bpc EXCEPT ![k] = "wait"]
    /\ closed' = TRUE

\* Close, the critical section under cb.mu: return when already closed, else
\* set the flag and go on to cb.wg.Wait().
CloseBegin(k) ==
    /\ bpc' = [bpc EXCEPT ![k] = IF closed THEN "done" ELSE "wait"]
    /\ closed' = TRUE

\* CloseEnd done wrong: the sink is closed without waiting for the forwarders.
CloseEndNoWait(k) ==
    /\ IF busClosed
       THEN panic' = CloseClosedPanic("Close") /\ UNCHANGED <<busClosed, bpc>>
       ELSE /\ busClosed' = TRUE
            /\ bpc' = [bpc EXCEPT ![k] = "done"]
            /\ panic' = panic

\* CloseEnd done wrong: the call returns after the wait and leaves the sink
\* open.
CloseEndLeavesOpen(k) ==
    /\ wg = 0
    /\ bpc' = [bpc EXCEPT ![k] = "done"]
    /\ UNCHANGED <<busClosed, panic>>

\* Close, after the critical section: cb.wg.Wait() returns once the counter is
\* zero, then close(cb.bus), which panics on a channel already closed.
CloseEnd(k) ==
    /\ wg = 0
    /\ IF busClosed
       THEN panic' = CloseClosedPanic("Close") /\ UNCHANGED <<busClosed, bpc>>
       ELSE /\ busClosed' = TRUE
            /\ bpc' = [bpc EXCEPT ![k] = "done"]
            /\ panic' = panic

\* A goroutine calls Close on the bus.
BusCloseCall(k) ==
    /\ Running
    /\ bpc[k] = "idle"
    /\ CloseBegin(k)
    /\ UNCHANGED <<bufferSize, bus, busClosed, wg>>
    /\ UNCHANGED <<srcVars, subVars, spanVars, callVars, panic>>
    /\ UNCHANGED <<idVars, groupVars, restVars>>

\* A Close call past its critical section goes on.
BusCloseWait(k) ==
    /\ Running
    /\ bpc[k] = "wait"
    /\ CloseEnd(k)
    /\ UNCHANGED <<bufferSize, bus, closed, wg>>
    /\ UNCHANGED <<srcVars, subVars, spanVars, callVars>>
    /\ UNCHANGED <<idVars, groupVars, restVars>>

(* ------------------ source channels written directly ------------------ *)

\* The owner of a source channel registers it with the bus.
RegisterCall(s) ==
    /\ Running
    /\ fwd[s] = "none"
    /\ Register(s)
    /\ UNCHANGED <<bufferSize, bus, busClosed, closed, bpc>>
    /\ UNCHANGED <<ch, chClosed, held, sent>>
    /\ UNCHANGED <<subVars, spanVars, callVars>>
    /\ UNCHANGED <<idVars, groupVars, restVars>>

\* The owner writes its next message into its source channel.
OwnerSend(s) ==
    /\ Running
    /\ ~chClosed[s]
    /\ Produced < MaxMsgs
    /\ Len(ch[s]) < BufferSize
    /\ ch' = [ch EXCEPT ![s] = Append(ch[s], Error(ToString(s), "", sent[s] + 1))]
    /\ sent' = [sent EXCEPT ![s] = sent[s] + 1]
    /\ UNCHANGED <<chClosed, fwd, held>>
    /\ UNCHANGED <<busVars, subVars, spanVars, callVars, panic>>
    /\ UNCHANGED <<idVars, groupVars, restVars>>

\* The owner closes its source channel.
OwnerClose(s) ==
    /\ Running
    /\ ~chClosed[s]
    /\ chClosed' = [chClosed EXCEPT ![s] = TRUE]
    /\ UNCHANGED <<ch, fwd, held, sent>>
    /\ UNCHANGED <<busVars, subVars, spanVars, callVars, panic>>
    /\ UNCHANGED <<idVars, groupVars, restVars>>

(* ------------------------------ SpecBus ------------------------------- *)

InitRest ==
    /\ ch = [s \in Ids |-> <<>>]
    /\ chClosed = [s \in Ids |-> FALSE]
    /\ fwd = [s \in Ids |-> "none"]
    /\ held = [s \in Ids |-> <<>>]
    /\ sent = [s \in Ids |-> 0]
    /\ npub = 0
    /\ got = [r \in Readers |-> {}]
    /\ job = [t \in Ids |-> "unstarted"]
    /\ Sig = [t \in Ids |-> 0]
    /\ Ack = [t \in Ids |-> 0]
    /\ ackClosed = [t \in Ids |-> FALSE]
    /\ ctxDone = FALSE
    /\ nclose = [t \in Ids |-> 0]
    /\ call = [c \in Callers |-> [pc |-> "idle", task |-> 0, waited |-> 0]]
    /\ res = [c \in Callers |-> Returned("none", 0)]
    /\ jobID = [t \in Ids |-> Absent]
    /\ groupID = [t \in Ids |-> Absent]
    /\ unit = [t \in Ids |-> 0]
    /\ startErr = NoError
    /\ rwc = NotCalled
    /\ logger = NewLogger
    /\ panic = NoPanic

\* No Group was made.
NoGroup ==
    /\ UUID = ""
    /\ Jobs = 0
    /\ Spans = <<>>
    /\ gpc = "none"
    /\ started = 0
    /\ visited = {}
    /\ clock = 0

InitBus ==
    /\ \E size \in 1..MaxBuf : NewCentralMessageBus(size)
    /\ InitRest
    /\ NoGroup

NextBus ==
    \/ \E s \in Sources : RegisterCall(s)
    \/ \E s \in Sources : OwnerSend(s)
    \/ \E s \in Sources : OwnerClose(s)
    \/ \E s \in Sources : FwdRecv(s)
    \/ \E s \in Sources : FwdSend(s)
    \/ PublishCall
    \/ Receive("r1")
    \/ \E k \in BusClosers : BusCloseCall(k)
    \/ \E k \in BusClosers : BusCloseWait(k)

SpecBus == InitBus /\ [][NextBus]_vars

(* ------------------------------ SpecSub ------------------------------- *)

\* The bus with its sources and publishers, and two subscribers, each of
\* which reads the channel its own Subscribe call returned.
NextSub ==
    \/ \E s \in Sources : RegisterCall(s)
    \/ \E s \in Sources : OwnerSend(s)
    \/ \E s \in Sources : FwdRecv(s)
    \/ \E s \in Sources : FwdSend(s)
    \/ PublishCall
    \/ \E r \in Readers : Receive(r)

SpecSub == InitBus /\ [][NextSub]_vars

(* ------------------------------ SpecNew ------------------------------- *)

\* A bus made with any size, zero too.
InitNew ==
    /\ \E size \in 0..MaxBuf : NewCentralMessageBus(size)
    /\ InitRest
    /\ NoGroup

\* A bus that is given messages by Publish alone, by the goroutine that also
\* reads it (as in TestNewErrorBus: no receiver waits while Publish runs);
\* sources are registered and closed without a message, and the bus is closed.
NextNew ==
    \/ PublishCall
    \/ Receive("r1")
    \/ \E s \in Sources : RegisterCall(s)
    \/ \E s \in Sources : OwnerClose(s)
    \/ \E s \in Sources : FwdRecv(s)
    \/ \E k \in BusClosers : BusCloseCall(k)
    \/ \E k \in BusClosers : BusCloseWait(k)

SpecNew == InitNew /\ [][NextNew]_vars

(* --------------------------- Run and the job -------------------------- *)

\* Run done wrong: a job_id is minted and attached whether or not the context
\* carries one.
RunAlwaysMints(t, ctx, fresh) ==
    /\ Running
    /\ job[t] = "unstarted"
    /\ Register(t)
    /\ IF closed
       THEN UNCHANGED <<job, jobID, groupID>>
       ELSE /\ job' = [job EXCEPT ![t] = "running"]
            /\ groupID' = [groupID EXCEPT ![t] = ctx.group_id]
            /\ jobID' = [jobID EXCEPT ![t] = fresh]
    /\ UNCHANGED <<bufferSize, bus, busClosed, closed, bpc>>
    /\ UNCHANGED <<ch, chClosed, held, sent>>
    /\ UNCHANGED <<subVars, Sig, Ack, ackClosed, ctxDone, callVars>>

\* Run done wrong: the handle is built and the goroutine started before the
\* error channel is registered.
RunRegistersLast(t, ctx, fresh) ==
    /\ Running
    /\ job[t] = "unstarted"
    /\ IF IsNil(ctx)
       THEN /\ panic' = NilDerefPanic("Run")
            /\ UNCHANGED <<wg, fwd, job, jobID, groupID>>
       ELSE /\ Register(t)
            /\ job' = [job EXCEPT ![t] = "running"]
            /\ groupID' = [groupID EXCEPT ![t] = ctx.group_id]
            /\ jobID' = [jobID EXCEPT ![t] =
                           IF ctx.job_id = Absent THEN fresh ELSE ctx.job_id]
    /\ UNCHANGED <<bufferSize, bus, busClosed, closed, bpc>>
    /\ UNCHANGED <<ch, chClosed, held, sent>>
    /\ UNCHANGED <<subVars, Sig, Ack, ackClosed, ctxDone, callVars>>

\* Run(ctx, job): call ctx.Value, which panics when ctx is nil; give ctx a
\* freshly minted job_id (fresh, what uuid.New() returns here) when it
\* carries none, make the task's error channel,
\* register it with DefaultCentralErrorBus (which panics when that bus is
\* closed), build the handle (Sig and Ack empty) and start the goroutine that
\* runs job(ctx, span).
Run(t, ctx, fresh) ==
    /\ Running
    /\ job[t] = "unstarted"
    /\ IF IsNil(ctx)
       THEN /\ panic' = NilDerefPanic("Run")
            /\ UNCHANGED <<wg, fwd, job, jobID, groupID>>
       ELSE /\ Register(t)
            /\ IF closed
               THEN UNCHANGED <<job, jobID, groupID>>
               ELSE /\ job' = [job EXCEPT ![t] = "running"]
                    /\ groupID' = [groupID EXCEPT ![t] = ctx.group_id]
                    /\ jobID' = [jobID EXCEPT ![t] =
                                   IF ctx.job_id = Absent THEN fresh ELSE ctx.job_id]
    /\ UNCHANGED <<bufferSize, bus, busClosed, closed, bpc>>
    /\ UNCHANGED <<ch, chClosed, held, sent>>
    /\ UNCHANGED <<subVars, Sig, Ack, ackClosed, ctxDone, callVars>>

\* A caller outside any group calls Run with a work function of its own.
RunCall(t, ctx) ==
    /\ Run(t, ctx, NewUUID(Minted))
    /\ UNCHANGED <<unit, groupVars, restVars>>

\* The caller of Run cancels the context it passes to Run.
CtxCancel ==
    /\ Running
    /\ ~ctxDone
    /\ ctxDone' = TRUE
    /\ UNCHANGED <<job, Sig, Ack, ackClosed>>
    /\ UNCHANGED <<busVars, srcVars, subVars, callVars, panic>>
    /\ UNCHANGED <<idVars, groupVars, restVars>>

\* The work function receives from span.Sig.
JobRecvSig(t) ==
    /\ Running
    /\ job[t] = "running"
    /\ Sig[t] > 0
    /\ Sig' = [Sig EXCEPT ![t] = Sig[t] - 1]
    /\ UNCHANGED <<job, Ack, ackClosed, ctxDone>>
    /\ UNCHANGED <<busVars, srcVars, subVars, callVars, panic>>
    /\ UNCHANGED <<idVars, groupVars, restVars>>

\* The work function sends on span.Ack (as the README's jobs do before they
\* return): a blocking send on a channel of capacity 1.
JobSendAck(t) ==
    /\ Running
    /\ job[t] = "running"
    /\ Ack[t] < AckCap
    /\ Ack' = [Ack EXCEPT ![t] = Ack[t] + 1]
    /\ UNCHANGED <<job, Sig, ackClosed, ctxDone>>
    /\ UNCHANGED <<busVars, srcVars, subVars, callVars, panic>>
    /\ UNCHANGED <<idVars, groupVars, restVars>>

\* The work function calls span.Error(ctx, err): the Error record is built
\* from the context's job_id and group_id, and the call reaches its send.
JobError(t) ==
    /\ Running
    /\ job[t] = "running"
    /\ Produced < MaxErrs
    /\ job' = [job EXCEPT ![t] = "error"]
    /\ UNCHANGED <<Sig, Ack, ackClosed, ctxDone>>
    /\ UNCHANGED <<busVars, srcVars, subVars, callVars, panic>>
    /\ UNCHANGED <<idVars, groupVars, restVars>>

\* ErrorSend done wrong: the record takes the ids of the task's own context
\* (as when the handle carried its own UUID), not those of the ctx argument.
ErrorSendOwnIDs(t, ctx, err) ==
    /\ Len(ch[t]) < BufferSize
    /\ ch' = [ch EXCEPT ![t] =
                Append(ch[t], Error(JobIDFromContext(TaskCtx(t)),
                                    GroupIDFromContext(TaskCtx(t)), err))]
    /\ sent' = [sent EXCEPT ![t] = sent[t] + 1]

\* LifeSpan.Error's `span.ErrBus <- e`: a blocking send on the task's error
\* channel, which has room for defaultBufferSize records.
ErrorSend(t, ctx, err) ==
    /\ Len(ch[t]) < BufferSize
    /\ ch' = [ch EXCEPT ![t] =
                Append(ch[t], Error(JobIDFromContext(ctx), GroupIDFromContext(ctx), err))]
    /\ sent' = [sent EXCEPT ![t] = sent[t] + 1]

\* The Error call, made with the context the work function was given and
\* with its next error, completes its send and returns to the work function.
JobErrorDone(t) ==
    /\ Running
    /\ job[t] = "error"
    /\ ErrorSend(t, TaskCtx(t), sent[t] + 1)
    /\ job' = [job EXCEPT ![t] = "running"]
    /\ UNCHANGED <<chClosed, fwd, held>>
    /\ UNCHANGED <<Sig, Ack, ackClosed, ctxDone>>
    /\ UNCHANGED <<busVars, subVars, callVars, panic>>
    /\ UNCHANGED <<idVars, groupVars, restVars>>

\* JobReturn done wrong: Ack is closed as the work function returns, ahead
\* of the deferred calls.
JobReturnClosesAck(t) ==
    /\ Running
    /\ job[t] = "running"
    /\ job' = [job EXCEPT ![t] = "returned"]
    /\ ackClosed' = [ackClosed EXCEPT ![t] = TRUE]
    /\ UNCHANGED <<Sig, Ack, ctxDone>>
    /\ UNCHANGED <<busVars, srcVars, subVars, callVars, panic>>
    /\ UNCHANGED <<idVars, groupVars, restVars>>

\* The work function returns.
JobReturn(t) ==
    /\ Running
    /\ job[t] = "running"
    /\ job' = [job EXCEPT ![t] = "returned"]
    /\ UNCHANGED <<Sig, Ack, ackClosed, ctxDone>>
    /\ UNCHANGED <<busVars, srcVars, subVars, callVars, panic>>
    /\ UNCHANGED <<idVars, groupVars, restVars>>

\* RunnerCloseErrBus done wrong: the goroutine goes on to close Ack and
\* leaves the error channel open.
RunnerLeavesErrBusOpen(t) ==
    /\ Running
    /\ job[t] = "returned"
    /\ job' = [job EXCEPT ![t] = "errclosed"]
    /\ UNCHANGED <<ch, chClosed, fwd, held, sent>>
    /\ UNCHANGED <<Sig, Ack, ackClosed, ctxDone>>
    /\ UNCHANGED <<busVars, subVars, callVars, panic>>
    /\ UNCHANGED <<idVars, groupVars, restVars>>

\* The goroutine's deferred calls, last registered first.
\* defer close(span.ErrBus)
RunnerCloseErrBus(t) ==
    /\ Running
    /\ job[t] = "returned"
    /\ IF chClosed[t]
       THEN panic' = CloseClosedPanic("Run") /\ UNCHANGED <<chClosed, job>>
       ELSE /\ chClosed' = [chClosed EXCEPT ![t] = TRUE]
            /\ job' = [job EXCEPT ![t] = "errclosed"]
            /\ panic' = panic
    /\ UNCHANGED <<ch, fwd, held, sent>>
    /\ UNCHANGED <<Sig, Ack, ackClosed, ctxDone>>
    /\ UNCHANGED <<busVars, subVars, callVars>>
    /\ UNCHANGED <<idVars, groupVars, restVars>>

\* defer close(span.Ack)
RunnerCloseAck(t) ==
    /\ Running
    /\ job[t] = "errclosed"
    /\ IF ackClosed[t]
       THEN panic' = CloseClosedPanic("Run") /\ UNCHANGED <<ackClosed, job>>
       ELSE /\ ackClosed' = [ackClosed EXCEPT ![t] = TRUE]
            /\ job' = [job EXCEPT ![t] = "done"]
            /\ panic' = panic
    /\ UNCHANGED <<Sig, Ack, ctxDone>>
    /\ UNCHANGED <<busVars, srcVars, subVars, callVars>>
    /\ UNCHANGED <<idVars, groupVars, restVars>>

(* --------------------------- LifeSpan.Close --------------------------- *)

\* A caller that is in no span.Close() call.
Idle == [pc |-> "idle", task |-> 0, waited |-> 0]

\* AckReady done wrong: a closed Ack does not let the receive proceed.
AckReadyValueOnly(t) == Ack[t] > 0

\* `<-span.Ack` can proceed: a value is buffered or the channel is closed.
AckReady(t) == Ack[t] > 0 \/ ackClosed[t]

\* The receive from span.Ack: a buffered value is taken; a closed, empty
\* channel yields the zero value and stays as it is.
AckAfterRecv(t) == [Ack EXCEPT ![t] = IF Ack[t] > 0 THEN Ack[t] - 1 ELSE 0]

\* TimerFired done wrong: the timer never fires.
TimerNever(w) == FALSE

\* `<-time.After(3 * time.Second)` can proceed after Timeout ticks.
TimerFired(w) == w >= Timeout

\* LifeSpanClose done wrong: the send on Sig has no default case, so the call
\* blocks while Sig's slot is occupied.
LifeSpanCloseBlockingSend(c, t) ==
    /\ Sig[t] < SigCap
    /\ Sig' = [Sig EXCEPT ![t] = Sig[t] + 1]
    /\ IF AckReady(t)
       THEN /\ Ack' = AckAfterRecv(t)
            /\ call' = [call EXCEPT ![c] = Idle]
            /\ res' = [res EXCEPT ![c] = Returned("ack", t)]
       ELSE /\ Ack' = Ack
            /\ call' = [call EXCEPT ![c] = [pc |-> "wait", task |-> t, waited |-> 0]]
            /\ res' = [res EXCEPT ![c] = Returned("waiting", t)]
    /\ UNCHANGED <<ackClosed, ctxDone, chClosed, job>>

\* LifeSpanClose done wrong: waits for Ack although the signal was not sent.
LifeSpanCloseAlwaysWaits(c, t) ==
    /\ Sig' = [Sig EXCEPT ![t] = SigCap]
    /\ IF AckReady(t)
       THEN /\ Ack' = AckAfterRecv(t)
            /\ call' = [call EXCEPT ![c] = Idle]
            /\ res' = [res EXCEPT ![c] = Returned("ack", t)]
       ELSE /\ Ack' = Ack
            /\ call' = [call EXCEPT ![c] = [pc |-> "wait", task |-> t, waited |-> 0]]
            /\ res' = [res EXCEPT ![c] = Returned("waiting", t)]
    /\ UNCHANGED <<ackClosed, ctxDone, chClosed, job>>

\* LifeSpanClose done wrong: cancels the task's context (as the revision
\* whose Group.Close called group.Cancel() did).
LifeSpanCloseCancels(c, t) ==
    /\ ctxDone' = TRUE
    /\ IF Sig[t] < SigCap
       THEN /\ Sig' = [Sig EXCEPT ![t] = Sig[t] + 1]
            /\ IF AckReady(t)
               THEN /\ Ack' = AckAfterRecv(t)
                    /\ call' = [call EXCEPT ![c] = Idle]
                    /\ res' = [res EXCEPT ![c] = Returned("ack", t)]
               ELSE /\ Ack' = Ack
                    /\ call' = [call EXCEPT ![c] = [pc |-> "wait", task |-> t, waited |-> 0]]
                    /\ res' = [res EXCEPT ![c] = Returned("waiting", t)]
       ELSE /\ res' = [res EXCEPT ![c] = Returned("contention", t)]
            /\ UNCHANGED <<Sig, Ack, call>>
    /\ UNCHANGED <<ackClosed, chClosed, job>>

\* LifeSpanClose done wrong: the call waits for Ack without having put the
\* signal into Sig.
LifeSpanCloseNoSend(c, t) ==
    /\ IF Sig[t] < SigCap
       THEN /\ Sig' = Sig
            /\ IF AckReady(t)
               THEN /\ Ack' = AckAfterRecv(t)
                    /\ call' = [call EXCEPT ![c] = Idle]
                    /\ res' = [res EXCEPT ![c] = Returned("ack", t)]
               ELSE /\ Ack' = Ack
                    /\ call' = [call EXCEPT ![c] = [pc |-> "wait", task |-> t, waited |-> 0]]
                    /\ res' = [res EXCEPT ![c] = Returned("waiting", t)]
       ELSE /\ res' = [res EXCEPT ![c] = Returned("contention", t)]
            /\ UNCHANGED <<Sig, Ack, call>>
    /\ UNCHANGED <<ackClosed, ctxDone, chClosed, job>>

\* span.Close() up to the point where it blocks: the outer select sends on
\* Sig or takes the default case (a warning, and the call returns); after a
\* send the inner select receives from Ack when that can proceed at once,
\* else the call waits for Ack or the timer.
LifeSpanClose(c, t) ==
    /\ IF Sig[t] < SigCap
       THEN /\ Sig' = [Sig EXCEPT ![t] = Sig[t] + 1]
            /\ IF AckReady(t)
               THEN /\ Ack' = AckAfterRecv(t)
                    /\ call' = [call EXCEPT ![c] = Idle]
                    /\ res' = [res EXCEPT ![c] = Returned("ack", t)]
               ELSE /\ Ack' = Ack
                    /\ call' = [call EXCEPT ![c] = [pc |-> "wait", task |-> t, waited |-> 0]]
                    /\ res' = [res EXCEPT ![c] = Returned("waiting", t)]
       ELSE /\ res' = [res EXCEPT ![c] = Returned("contention", t)]
            /\ UNCHANGED <<Sig, Ack, call>>
    /\ UNCHANGED <<ackClosed, ctxDone, chClosed, job>>

\* A goroutine that holds the handle calls span.Close().
CloseCall(c, t) ==
    /\ Running
    /\ call[c].pc = "idle"
    /\ job[t] # "unstarted"
    /\ nclose[t] < MaxCloses
    /\ LifeSpanClose(c, t)
    /\ nclose' = [nclose EXCEPT ![t] = nclose[t] + 1]
    /\ UNCHANGED <<busVars, ch, fwd, held, sent, subVars, panic>>
    /\ UNCHANGED <<idVars, groupVars, restVars>>

\* The waiting call's `case <-span.Ack: return`.
CloseAck(c) ==
    /\ Running
    /\ call[c].pc = "wait"
    /\ AckReady(call[c].task)
    /\ Ack' = AckAfterRecv(call[c].task)
    /\ call' = [call EXCEPT ![c] = Idle]
    /\ res' = [res EXCEPT ![c] = Returned("ack", call[c].task)]
    /\ UNCHANGED <<job, Sig, ackClosed, ctxDone, nclose>>
    /\ UNCHANGED <<busVars, srcVars, subVars, panic>>
    /\ UNCHANGED <<idVars, groupVars, restVars>>

\* The waiting call's `case <-time.After(3 * time.Second)`: a warning, and
\* the call returns.
CloseTimeout(c) ==
    /\ Running
    /\ call[c].pc = "wait"
    /\ TimerFired(call[c].waited)
    /\ call' = [call EXCEPT ![c] = Idle]
    /\ res' = [res EXCEPT ![c] = Returned("timeout", call[c].task)]
    /\ UNCHANGED <<spanVars, nclose>>
    /\ UNCHANGED <<busVars, srcVars, subVars, panic>>
    /\ UNCHANGED <<idVars, groupVars, restVars>>

\* One second passes for every waiting call.  A select whose case can
\* proceed does not go on waiting: time does not pass a call whose Ack is
\* ready or whose 3 seconds are over.
Elapse ==
    /\ Running
    /\ \E c \in Callers : call[c].pc = "wait"
    /\ \A c \in Callers :
         call[c].pc = "wait" =>
           /\ ~AckReady(call[c].task)
           /\ call[c].waited < Timeout
    /\ call' = [c \in Callers |->
                  IF call[c].pc = "wait"
                  THEN [call[c] EXCEPT !.waited = call[c].waited + 1]
                  ELSE call[c]]
    /\ UNCHANGED <<spanVars, nclose, res>>
    /\ UNCHANGED <<busVars, srcVars, subVars, panic>>
    /\ UNCHANGED <<idVars, restVars>>

\* A second passes, with no Group.Close call being timed.
Tick ==
    /\ Elapse
    /\ UNCHANGED groupVars

(* ------------------------------ SpecSpan ------------------------------ *)

\* DefaultCentralErrorBus = NewCentralMessageBus[Error](defaultBufferSize)
Init ==
    /\ NewCentralMessageBus(BufferSize)
    /\ InitRest
    /\ NoGroup

\* Tasks, their handles and the callers of span.Close().  The work functions
\* report no errors here, and the forwarders, which touch no handle, are
\* left out.
NextSpan ==
    \/ \E t \in Handles : RunCall(t, Background)
    \/ CtxCancel
    \/ \E t \in Handles : JobRecvSig(t)
    \/ \E t \in Handles : JobSendAck(t)
    \/ \E t \in Handles : JobReturn(t)
    \/ \E t \in Handles : RunnerCloseErrBus(t)
    \/ \E t \in Handles : RunnerCloseAck(t)
    \/ \E c \in Callers, t \in Handles : CloseCall(c, t)
    \/ \E c \in Callers : CloseAck(c)
    \/ \E c \in Callers : CloseTimeout(c)
    \/ Tick

SpecSpan == Init /\ [][NextSpan]_vars

\* The scheduler runs a goroutine whose select case can proceed, and time
\* passes.
SpecSpanFair ==
    /\ SpecSpan
    /\ WF_vars(Tick)
    /\ \A c \in Callers : WF_vars(CloseAck(c)) /\ WF_vars(CloseTimeout(c))

(* ------------------------------ SpecErr ------------------------------- *)

\* Tasks that report errors, the forwarders, the default central bus, a
\* subscriber and a caller of its Close.
NextErr ==
    \/ \E t \in Tasks : RunCall(t, Background)
    \/ \E t \in Tasks : JobError(t)
    \/ \E t \in Tasks : JobErrorDone(t)
    \/ \E t \in Tasks : JobReturn(t)
    \/ \E t \in Tasks : RunnerCloseErrBus(t)
    \/ \E t \in Tasks : RunnerCloseAck(t)
    \/ \E t \in Tasks : FwdRecv(t)
    \/ \E t \in Tasks : FwdSend(t)
    \/ PublishCall
    \/ Receive("r1")
    \/ BusCloseCall("k1")
    \/ BusCloseWait("k1")

SpecErr == Init /\ [][NextErr]_vars

(* ------------------------------ SpecShut ------------------------------ *)

\* Tasks started by Run while the default central error bus is being
\* closed: the work functions return without reporting, their forwarders
\* finish, and one goroutine calls Close on the bus.
NextShut ==
    \/ \E t \in Tasks : RunCall(t, Background)
    \/ \E t \in Tasks : JobReturn(t)
    \/ \E t \in Tasks : RunnerCloseErrBus(t)
    \/ \E t \in Tasks : RunnerCloseAck(t)
    \/ \E t \in Tasks : FwdRecv(t)
    \/ \E k \in BusClosers : BusCloseCall(k)
    \/ \E k \in BusClosers : BusCloseWait(k)

SpecShut == Init /\ [][NextShut]_vars

(* ------------------- the work function of the tests ------------------- *)

\* The work function of Test_RunWithMoreJobsAndErrors: it loops until it
\* reads Sig, reports one error, sends on Ack and returns.  Its context is
\* never cancelled here.
\* `case <-span.Sig:`
SigJobRecv(t) ==
    /\ Running
    /\ job[t] = "running"
    /\ Sig[t] > 0
    /\ Sig' = [Sig EXCEPT ![t] = Sig[t] - 1]
    /\ job' = [job EXCEPT ![t] = "signalled"]
    /\ UNCHANGED <<Ack, ackClosed, ctxDone>>
    /\ UNCHANGED <<busVars, srcVars, subVars, callVars, panic>>
    /\ UNCHANGED <<idVars, groupVars, restVars>>

\* `span.Error(...)`, up to the end of its blocking send.
SigJobError(t) ==
    /\ Running
    /\ job[t] = "signalled"
    /\ ErrorSend(t, TaskCtx(t), sent[t] + 1)
    /\ job' = [job EXCEPT ![t] = "reported"]
    /\ UNCHANGED <<chClosed, fwd, held>>
    /\ UNCHANGED <<Sig, Ack, ackClosed, ctxDone>>
    /\ UNCHANGED <<busVars, subVars, callVars, panic>>
    /\ UNCHANGED <<idVars, groupVars, restVars>>

\* `span.Ack <- struct{}{}`, after which the function returns.
SigJobAck(t) ==
    /\ Running
    /\ job[t] = "reported"
    /\ Ack[t] < AckCap
    /\ Ack' = [Ack EXCEPT ![t] = Ack[t] + 1]
    /\ job' = [job EXCEPT ![t] = "returned"]
    /\ UNCHANGED <<Sig, ackClosed, ctxDone>>
    /\ UNCHANGED <<busVars, srcVars, subVars, callVars, panic>>
    /\ UNCHANGED <<idVars, groupVars, restVars>>

(* -------------------------- Job.RunWithClose -------------------------- *)

\* The steps of Job.RunWithClose and of its goroutines change rwc and
\* nothing else.
OnlyRWC ==
    UNCHANGED <<busVars, srcVars, subVars, spanVars, callVars, idVars, groupVars,
                cfgVars, logger, panic>>

\* The capacity of sig, ack, err and closeChan: make(chan ..., 1).
ChanCap == 1

\* RunWithClose(ctx): make the channels, signal.Notify(closeChan, ...), start
\* the goroutine that runs the Job (and, inside it, the one that calls
\* j.Run) and the control loop, and return err.
RunWithCloseCall ==
    /\ Running
    /\ rwc.ctl = "none"
    /\ rwc' = [rwc EXCEPT !.run = "run", !.close = "sig", !.ctl = "select"]
    /\ OnlyRWC

\* The OS delivers a signal the Job is notified of: package signal sends on
\* closeChan without blocking, dropping the signal when the channel is full.
Notify ==
    /\ Running
    /\ rwc.ctl # "none"
    /\ rwc.signals < MaxSignals
    /\ rwc' = [rwc EXCEPT !.signals = @ + 1,
                           !.closeChan = IF @ < ChanCap THEN @ + 1 ELSE @]
    /\ OnlyRWC

\* `if e := j.Run(); e != nil`: j.Run returns, nil or an error.
JobRunReturns(failed) ==
    /\ Running
    /\ rwc.run = "run"
    /\ rwc' = [rwc EXCEPT !.run = IF failed THEN "err" ELSE "done"]
    /\ OnlyRWC

\* `err <- e` after j.Run: a blocking send.
JobRunSendErr ==
    /\ Running
    /\ rwc.run = "err"
    /\ rwc.err < ChanCap
    /\ rwc' = [rwc EXCEPT !.err = @ + 1, !.run = "done"]
    /\ OnlyRWC

\* `<-sig`, after which j.Close is called.
RunnerRecvSig ==
    /\ Running
    /\ rwc.close = "sig"
    /\ rwc.sig > 0
    /\ rwc' = [rwc EXCEPT !.sig = @ - 1, !.close = "close"]
    /\ OnlyRWC

\* `if e := j.Close(); e != nil`: j.Close returns, nil or an error.
JobCloseReturns(failed) ==
    /\ Running
    /\ rwc.close = "close"
    /\ rwc' = [rwc EXCEPT !.close = IF failed THEN "err" ELSE "ack"]
    /\ OnlyRWC

\* `err <- e` after j.Close: a blocking send.
JobCloseSendErr ==
    /\ Running
    /\ rwc.close = "err"
    /\ rwc.err < ChanCap
    /\ rwc' = [rwc EXCEPT !.err = @ + 1, !.close = "ack"]
    /\ OnlyRWC

\* `ack <- 1`
RunnerSendAck ==
    /\ Running
    /\ rwc.close = "ack"
    /\ rwc.ack < ChanCap
    /\ rwc' = [rwc EXCEPT !.ack = @ + 1, !.close = "done"]
    /\ OnlyRWC

\* The control loop's `case <-closeChan:`
ControlRecvSignal ==
    /\ Running
    /\ rwc.ctl = "select"
    /\ rwc.closeChan > 0
    /\ rwc' = [rwc EXCEPT !.closeChan = @ - 1, !.ctl = "send"]
    /\ OnlyRWC

\* `sig <- 1` in that case: a blocking send, after which the loop goes round.
ControlSendSig ==
    /\ Running
    /\ rwc.ctl = "send"
    /\ rwc.sig < ChanCap
    /\ rwc' = [rwc EXCEPT !.sig = @ + 1, !.ctl = "select"]
    /\ OnlyRWC

\* `case <-ack: break LOOP`
ControlRecvAck ==
    /\ Running
    /\ rwc.ctl = "select"
    /\ rwc.ack > 0
    /\ rwc' = [rwc EXCEPT !.ack = @ - 1, !.ctl = "exited"]
    /\ OnlyRWC

\* `case <-ctx.Done(): break LOOP`
ControlCtxDone ==
    /\ Running
    /\ rwc.ctl = "select"
    /\ ctxDone
    /\ rwc' = [rwc EXCEPT !.ctl = "exited"]
    /\ OnlyRWC

\* The caller of RunWithClose receives an error from the channel it returned.
ErrRead ==
    /\ Running
    /\ rwc.err > 0
    /\ rwc' = [rwc EXCEPT !.err = @ - 1]
    /\ OnlyRWC

(* ------------------------------- SpecJob ------------------------------ *)

\* A Job run by RunWithClose, the OS that signals the process, and the
\* caller, who may read the errors and may cancel the context.
NextJob ==
    \/ RunWithCloseCall
    \/ Notify
    \/ \E failed \in BOOLEAN : JobRunReturns(failed)
    \/ JobRunSendErr
    \/ RunnerRecvSig
    \/ \E failed \in BOOLEAN : JobCloseReturns(failed)
    \/ JobCloseSendErr
    \/ RunnerSendAck
    \/ ControlRecvSignal
    \/ ControlSendSig
    \/ ControlRecvAck
    \/ ControlCtxDone
    \/ ErrRead
    \/ CtxCancel

SpecJob == Init /\ [][NextJob]_vars

(* ------------------------------- Logger ------------------------------- *)

\* The steps of a Logger change logger and nothing else.
OnlyLogger ==
    UNCHANGED <<busVars, srcVars, subVars, spanVars, callVars, idVars, groupVars,
                cfgVars, rwc, panic>>

\* job_id and group_id attribute keys
jobIDKey == "job_id"
groupIDKey == "group_id"

\* The keys of the attributes logged: the two above and a free-form one.
AttrKeys == {jobIDKey, groupIDKey, "user"}

\* slog.Attr{Key, Value}
Attr(k, v) == [Key |-> k, Value |-> v]

\* The lists of at most n attributes whose value is v.
AttrLists(v, n) == UNION {[1..m -> {Attr(k, v) : k \in AttrKeys}] : m \in 0..n}

\* make(map[string]any, ...)
EmptyMap == [k \in {} |-> ""]

\* m[k] = v
SetKey(m, k, v) == [x \in DOMAIN m \cup {k} |-> IF x = k THEN v ELSE m[x]]

\* `for _, attr := range l.attrs`: job_id and group_id go to the fields of
\* those names, any other key to Metadata.
RECURSIVE StoredAttrs(_, _)
StoredAttrs(log, attrs) ==
    IF attrs = <<>> THEN log
    ELSE LET attr == Head(attrs)
             next == CASE attr.Key = jobIDKey -> [log EXCEPT !.JobID = attr.Value]
                       [] attr.Key = groupIDKey -> [log EXCEPT !.GroupID = attr.Value]
                       [] OTHER -> [log EXCEPT !.Metadata = SetKey(@, attr.Key, attr.Value)]
         IN  StoredAttrs(next, Tail(attrs))

\* `r.Attrs(func(attr slog.Attr) bool {...})`: every attribute of the record
\* goes to Metadata under its key.
RECURSIVE RecordAttrs(_, _)
RecordAttrs(log, attrs) ==
    IF attrs = <<>> THEN log
    ELSE LET attr == Head(attrs)
         IN  RecordAttrs([log EXCEPT !.Metadata = SetKey(@, attr.Key, attr.Value)],
                         Tail(attrs))

\* The Log that Handle(ctx, r) of a Logger with the stored attributes attrs
\* hands to its bus (Level and Timestamp, copied from the record, are left
\* out).
HandleLog(ctx, attrs, r) ==
    LET log  == [Msg |-> r.Message, JobID |-> "", GroupID |-> "", Metadata |-> EmptyMap]
        jid  == IF ctx.job_id # Absent THEN [log EXCEPT !.JobID = ctx.job_id] ELSE log
        gid  == IF ctx.group_id # Absent THEN [jid EXCEPT !.GroupID = ctx.group_id] ELSE jid
    IN  RecordAttrs(StoredAttrs(gid, attrs), r.Attrs)

\* LogBus.Publish(msg): a select with a default case, which drops msg when
\* the channel is full.
LogBusPublish(b, msg) == IF Len(b) < LogBufferSize THEN Append(b, msg) ELSE b

\* Handle(ctx, r)
Handle(ctx, r) ==
    /\ Running
    /\ logger' = [logger EXCEPT !.bus = LogBusPublish(@, HandleLog(ctx, logger.attrs, r))]
    /\ OnlyLogger

\* WithAttrs(attrs), the caller going on with the Logger it returns: the
\* stored attributes followed by the new ones, over the same bus.
WithAttrs(attrs) ==
    /\ Running
    /\ attrs # <<>>
    /\ Len(logger.attrs) + Len(attrs) <= MaxAttrs
    /\ logger' = [logger EXCEPT !.attrs = @ \o attrs]
    /\ OnlyLogger

\* The subscriber of Bus() receives a Log.
LogRecv ==
    /\ Running
    /\ logger.bus # <<>>
    /\ logger' = [logger EXCEPT !.bus = Tail(@)]
    /\ OnlyLogger

(* ------------------------------- SpecLog ------------------------------ *)

\* The contexts handed to Handle: one that carries no id, one that carries a
\* job_id, one that carries both ids.
LogCtxs == {Background, Ctx("c", Absent), Ctx("c", "c")}

\* The slog records handled: a message and at most MaxAttrs attributes.
Records == {[Message |-> "m", Attrs |-> a] : a \in AttrLists("r", MaxAttrs)}

\* A Logger, the code that logs through it, and the subscriber of its bus.
NextLog ==
    \/ \E ctx \in LogCtxs, r \in Records : Handle(ctx, r)
    \/ \E attrs \in AttrLists("s", MaxAttrs) : WithAttrs(attrs)
    \/ LogRecv

SpecLog == Init /\ [][NextLog]_vars

(* ------------------ the work function that polls Sig ------------------ *)

\* The work function of Test_Run: a loop around
\*   select { case <-ctx.Done(): break; case <-span.Sig: break; default: }
\* which sleeps one second after a pass that took the default case (as the
\* one of src/job_test.go does), then `span.Ack <- struct{}{}` and return.
\* `case <-span.Sig: break LOOP`
PollSig(t) ==
    /\ Running
    /\ job[t] = "running"
    /\ Sig[t] > 0
    /\ Sig' = [Sig EXCEPT ![t] = Sig[t] - 1]
    /\ job' = [job EXCEPT ![t] = "stopping"]
    /\ UNCHANGED <<Ack, ackClosed, ctxDone>>
    /\ UNCHANGED <<busVars, srcVars, subVars, callVars, panic>>
    /\ UNCHANGED <<idVars, groupVars, restVars>>

\* `case <-ctx.Done(): break LOOP`
PollDone(t) ==
    /\ Running
    /\ job[t] = "running"
    /\ ctxDone
    /\ job' = [job EXCEPT ![t] = "stopping"]
    /\ UNCHANGED <<Sig, Ack, ackClosed, ctxDone>>
    /\ UNCHANGED <<busVars, srcVars, subVars, callVars, panic>>
    /\ UNCHANGED <<idVars, groupVars, restVars>>

\* `default:`, taken when no other case can proceed, and time.Sleep(1 *
\* time.Second) after it.
PollSleep(t) ==
    /\ Running
    /\ job[t] = "running"
    /\ Sig[t] = 0
    /\ ~ctxDone
    /\ job' = [job EXCEPT ![t] = "sleeping"]
    /\ UNCHANGED <<Sig, Ack, ackClosed, ctxDone>>
    /\ UNCHANGED <<busVars, srcVars, subVars, callVars, panic>>
    /\ UNCHANGED <<idVars, groupVars, restVars>>

\* `span.Ack <- struct{}{}`, after which the function returns.
PollAck(t) ==
    /\ Running
    /\ job[t] = "stopping"
    /\ Ack[t] < AckCap
    /\ Ack' = [Ack EXCEPT ![t] = Ack[t] + 1]
    /\ job' = [job EXCEPT ![t] = "returned"]
    /\ UNCHANGED <<Sig, ackClosed, ctxDone>>
    /\ UNCHANGED <<busVars, srcVars, subVars, callVars, panic>>
    /\ UNCHANGED <<idVars, groupVars, restVars>>

\* One second passes: for every waiting call, and for every sleeping task,
\* whose sleep is over.  A goroutine that can run does so well within a
\* second: time does not pass a task that is at its select, at its send on
\* Ack or in its deferred calls, nor a call whose Ack is ready or whose 3
\* seconds are over.
PollTick ==
    /\ Running
    /\ \/ \E c \in Callers : call[c].pc = "wait"
       \/ \E t \in Handles : job[t] = "sleeping"
    /\ \A c \in Callers :
         call[c].pc = "wait" =>
           /\ ~AckReady(call[c].task)
           /\ call[c].waited < Timeout
    /\ \A t \in Handles : job[t] \in {"unstarted", "sleeping", "done"}
    /\ call' = [c \in Callers |->
                  IF call[c].pc = "wait"
                  THEN [call[c] EXCEPT !.waited = call[c].waited + 1]
                  ELSE call[c]]
    /\ job' = [t \in Ids |-> IF job[t] = "sleeping" THEN "running" ELSE job[t]]
    /\ UNCHANGED <<Sig, Ack, ackClosed, ctxDone, nclose, res>>
    /\ UNCHANGED <<busVars, srcVars, subVars, panic>>
    /\ UNCHANGED <<idVars, groupVars, restVars>>

(* ------------------------------ SpecPoll ------------------------------ *)

\* Tasks that run the polling work function, the caller that may cancel
\* their context, and the callers of span.Close().  The timer's case of
\* span.Close() is no step here: it can never proceed (C28).
NextPoll ==
    \/ \E t \in Handles : RunCall(t, Background)
    \/ CtxCancel
    \/ \E t \in Handles : PollSig(t)
    \/ \E t \in Handles : PollDone(t)
    \/ \E t \in Handles : PollSleep(t)
    \/ \E t \in Handles : PollAck(t)
    \/ \E t \in Handles : RunnerCloseErrBus(t)
    \/ \E t \in Handles : RunnerCloseAck(t)
    \/ \E c \in Callers, t \in Handles : CloseCall(c, t)
    \/ \E c \in Callers : CloseAck(c)
    \/ PollTick

SpecPoll == Init /\ [][NextPoll]_vars

\* The scheduler runs every goroutine that can take a step, and time passes.
SpecPollFair ==
    /\ SpecPoll
    /\ WF_vars(PollTick)
    /\ \A t \in Handles :
         /\ WF_vars(PollSig(t) \/ PollDone(t))
         /\ WF_vars(PollSleep(t))
         /\ WF_vars(PollAck(t))
         /\ WF_vars(RunnerCloseErrBus(t))
         /\ WF_vars(RunnerCloseAck(t))
    /\ \A c \in Callers : WF_vars(CloseAck(c))

(* -------------------------------- Group ------------------------------- *)

\* The goroutine that owns the group calls its methods one after the other;
\* it is the caller "c1" of the span.Close() calls Group.Close makes.
Owner == "c1"

\* The identifier NewGroup mints for the group: none of the task ids.
GroupUUID == "g"

\* NewGroup(jobs...): a fresh UUID, the n units, an empty map.
NewGroup(n) ==
    /\ UUID = GroupUUID
    /\ Jobs = n
    /\ Spans = <<>>
    /\ gpc = "new"
    /\ started = 0
    /\ visited = {}
    /\ clock = 0

\* group.Spans[id] = span
MapPut(m, id, span) ==
    [k \in DOMAIN m \cup {id} |-> IF k = id THEN span ELSE m[k]]

\* GroupStartNext done wrong: Run is given the base context, which carries no
\* job_id, so that Run mints an id of its own for the task.
GroupStartNextBaseCtx ==
    /\ gpc \in {"new", "starting"}
    /\ started < Jobs
    /\ LET id == NewUUID(Minted) IN
         /\ Run(started + 1, Ctx(Absent, UUID), NewUUID(Minted \cup {id}))
         /\ IF closed
            THEN UNCHANGED <<unit, Spans, gpc, started>>
            ELSE /\ unit' = [unit EXCEPT ![started + 1] = started + 1]
                 /\ Spans' = MapPut(Spans, id, started + 1)
                 /\ gpc' = "starting"
                 /\ started' = started + 1
    /\ UNCHANGED <<UUID, Jobs, visited, clock, restVars>>

\* GroupStartNext done wrong: the closures of all rounds share one loop
\* variable, so that a goroutine runs whichever unit the variable holds when
\* it reads it: this round's or a later one.
GroupStartNextSharedVar ==
    /\ gpc \in {"new", "starting"}
    /\ started < Jobs
    /\ LET id == NewUUID(Minted) IN
         /\ Run(started + 1, Ctx(id, UUID), NewUUID(Minted \cup {id}))
         /\ IF closed
            THEN UNCHANGED <<unit, Spans, gpc, started>>
            ELSE /\ \E u \in (started + 1)..Jobs :
                      unit' = [unit EXCEPT ![started + 1] = u]
                 /\ Spans' = MapPut(Spans, id, started + 1)
                 /\ gpc' = "starting"
                 /\ started' = started + 1
    /\ UNCHANGED <<UUID, Jobs, visited, clock, restVars>>

\* One round of Start's loop: mint the task id, derive the context that
\* carries it and the group id, call Run with a closure that runs this
\* round's unit (the loop variable is a new one in every round), and store
\* the handle under the task id.
GroupStartNext ==
    /\ gpc \in {"new", "starting"}
    /\ started < Jobs
    /\ LET id == NewUUID(Minted) IN
         /\ Run(started + 1, Ctx(id, UUID), NewUUID(Minted \cup {id}))
         /\ IF closed
            THEN UNCHANGED <<unit, Spans, gpc, started>>
            ELSE /\ unit' = [unit EXCEPT ![started + 1] = started + 1]
                 /\ Spans' = MapPut(Spans, id, started + 1)
                 /\ gpc' = "starting"
                 /\ started' = started + 1
    /\ UNCHANGED <<UUID, Jobs, visited, clock, restVars>>

\* Start's loop is over: return nil.
GroupStartReturn ==
    /\ Running
    /\ gpc \in {"new", "starting"}
    /\ started = Jobs
    /\ gpc' = "started"
    /\ UNCHANGED <<UUID, Jobs, Spans, started, visited, clock>>
    /\ UNCHANGED <<busVars, srcVars, subVars, spanVars, callVars, idVars, restVars, panic>>

\* The owner calls Group.Close.
GroupCloseCall ==
    /\ Running
    /\ gpc = "started"
    /\ \A id \in DOMAIN Spans : nclose[Spans[id]] < MaxCloses
    /\ gpc' = "closing"
    /\ visited' = {}
    /\ clock' = 0
    /\ UNCHANGED <<UUID, Jobs, Spans, started>>
    /\ UNCHANGED <<busVars, srcVars, subVars, spanVars, callVars, idVars, restVars, panic>>

\* GroupCloseNext done wrong: the entry is deleted from the map once its
\* handle was closed.
GroupCloseNextDeletes ==
    /\ Running
    /\ gpc = "closing"
    /\ call[Owner].pc = "idle"
    /\ \E id \in DOMAIN Spans \ visited :
         /\ LifeSpanClose(Owner, Spans[id])
         /\ nclose' = [nclose EXCEPT ![Spans[id]] = nclose[Spans[id]] + 1]
         /\ Spans' = [k \in DOMAIN Spans \ {id} |-> Spans[k]]
         /\ visited' = visited
    /\ UNCHANGED <<UUID, Jobs, gpc, started, clock>>
    /\ UNCHANGED <<busVars, ch, fwd, held, sent, subVars, idVars, restVars, panic>>

\* One round of Group.Close's loop over the map, in whatever order the map
\* yields its entries: span.Close() on the next one.
GroupCloseNext ==
    /\ Running
    /\ gpc = "closing"
    /\ call[Owner].pc = "idle"
    /\ \E id \in DOMAIN Spans \ visited :
         /\ LifeSpanClose(Owner, Spans[id])
         /\ nclose' = [nclose EXCEPT ![Spans[id]] = nclose[Spans[id]] + 1]
         /\ visited' = visited \cup {id}
    /\ UNCHANGED <<UUID, Jobs, Spans, gpc, started, clock>>
    /\ UNCHANGED <<busVars, ch, fwd, held, sent, subVars, idVars, restVars, panic>>

\* Group.Close's loop is over and its last span.Close() has returned.
GroupCloseReturn ==
    /\ Running
    /\ gpc = "closing"
    /\ call[Owner].pc = "idle"
    /\ visited = DOMAIN Spans
    /\ gpc' = "closed"
    /\ UNCHANGED <<UUID, Jobs, Spans, started, visited, clock>>
    /\ UNCHANGED <<busVars, srcVars, subVars, spanVars, callVars, idVars, restVars, panic>>

(* ------------------------------ SpecGroup ----------------------------- *)

InitGroup ==
    /\ NewCentralMessageBus(BufferSize)
    /\ InitRest
    /\ \E n \in 0..NTasks : NewGroup(n)

\* A group of tasks that run the tests' work function, its owner, the
\* default central bus, a subscriber and a caller of the bus's Close.
GroupSteps ==
    \/ GroupStartNext
    \/ GroupStartReturn
    \/ GroupCloseCall
    \/ GroupCloseNext
    \/ GroupCloseReturn
    \/ CloseAck(Owner)
    \/ CloseTimeout(Owner)
    \/ \E t \in Tasks : SigJobRecv(t)
    \/ \E t \in Tasks : SigJobError(t)
    \/ \E t \in Tasks : SigJobAck(t)
    \/ \E t \in Tasks : RunnerCloseErrBus(t)
    \/ \E t \in Tasks : RunnerCloseAck(t)
    \/ \E t \in Tasks : FwdRecv(t)
    \/ \E t \in Tasks : FwdSend(t)
    \/ Receive("r1")
    \/ BusCloseCall("k1")
    \/ BusCloseWait("k1")

NextGroup == GroupSteps \/ Tick

SpecGroup == InitGroup /\ [][NextGroup]_vars

\* The scheduler runs every goroutine that can take a step; a forwarder
\* blocked in its send is served when the sink has room (the runtime queues
\* blocked senders in order), and the subscriber keeps reading the sink.
SpecGroupFair ==
    /\ SpecGroup
    /\ \A t \in Tasks : WF_vars(FwdRecv(t)) /\ SF_vars(FwdSend(t))
    /\ WF_vars(Receive("r1"))

(* --------------------------- SpecGroupClock --------------------------- *)

\* A second passes while Group.Close runs: the call in which the owner
\* waits, and with it the Group.Close call that made it, is one second older.
ClockTick ==
    /\ Elapse
    /\ clock' = IF gpc = "closing" THEN clock + 1 ELSE clock
    /\ UNCHANGED <<UUID, Jobs, Spans, gpc, started, visited>>

NextGroupClock == GroupSteps \/ ClockTick

\* The group with the time Group.Close takes measured.
SpecGroupClock == InitGroup /\ [][NextGroupClock]_vars

(* ------------- Group.Start that takes its collaborators --------------- *)

\* A pointer handed to Start: nil, or one that points to a collaborator.
Pointers == {"nil", "set"}

\* The errors Start returns: errors.New("nil logHandler"),
\* errors.New("nil errBus"), and nil.
NilLogHandler == "nil logHandler"
NilErrBus == "nil errBus"
Nil == "<nil>"

\* The Run that Start calls with the group's UUID, the log handler and the
\* error bus: it builds a handle with an empty Sig and Ack and starts the
\* work function on a goroutine of its own.
RunWith(t) ==
    /\ job[t] = "unstarted"
    /\ job' = [job EXCEPT ![t] = "running"]

\* StartWith done wrong: the two nil checks are missing.
StartWithUnchecked(logHandler, errBus) ==
    /\ gpc' = "checked"
    /\ startErr' = startErr

\* Start(logHandler, errBus), up to its loop: it returns an error at once
\* when logHandler is nil, and when errBus is nil.
StartWith(logHandler, errBus) ==
    IF logHandler = "nil"
    THEN gpc' = "failed" /\ startErr' = NilLogHandler
    ELSE IF errBus = "nil"
         THEN gpc' = "failed" /\ startErr' = NilErrBus
         ELSE gpc' = "checked" /\ startErr' = startErr

\* The owner of a new group calls Start with two pointers.
StartWithCall(logHandler, errBus) ==
    /\ Running
    /\ gpc = "new"
    /\ StartWith(logHandler, errBus)
    /\ UNCHANGED <<UUID, Jobs, Spans, started, visited, clock, rwc, logger>>
    /\ UNCHANGED <<busVars, srcVars, subVars, spanVars, callVars, idVars, panic>>

\* One round of that Start's loop: Run the next unit and append its handle
\* to group.Spans.
StartWithNext ==
    /\ Running
    /\ gpc = "checked"
    /\ started < Jobs
    /\ RunWith(started + 1)
    /\ unit' = [unit EXCEPT ![started + 1] = started + 1]
    /\ Spans' = Append(Spans, started + 1)
    /\ started' = started + 1
    /\ UNCHANGED <<UUID, Jobs, gpc, visited, clock, startErr, rwc, logger>>
    /\ UNCHANGED <<busVars, srcVars, subVars, callVars, panic>>
    /\ UNCHANGED <<Sig, Ack, ackClosed, ctxDone, jobID, groupID>>

\* That Start's loop is over: return nil.
StartWithReturn ==
    /\ Running
    /\ gpc = "checked"
    /\ started = Jobs
    /\ gpc' = "started"
    /\ startErr' = Nil
    /\ UNCHANGED <<UUID, Jobs, Spans, started, visited, clock, rwc, logger>>
    /\ UNCHANGED <<busVars, srcVars, subVars, spanVars, callVars, idVars, panic>>

\* A group whose Start takes the log handler and the error bus, its owner,
\* who closes handles of the group, and its tasks.
NextStart ==
    \/ \E logHandler \in Pointers, errBus \in Pointers :
          StartWithCall(logHandler, errBus)
    \/ StartWithNext
    \/ StartWithReturn
    \/ \E t \in Tasks : JobRecvSig(t)
    \/ \E t \in Tasks : JobSendAck(t)
    \/ \E t \in Tasks : CloseCall(Owner, t)
    \/ CloseAck(Owner)
    \/ CloseTimeout(Owner)
    \/ Tick

SpecStart == InitGroup /\ [][NextStart]_vars

(* ------------------------------- SpecIds ------------------------------ *)

\* The tasks that are no unit of the group: started, if at all, by a caller
\* of Run outside the group.
Ungrouped == {t \in Tasks : t > Jobs}

\* The group, its owner and its tasks, and beside them callers that start
\* the other tasks by Run with a context that carries no id or ids of their
\* own.  The forwarders and the bus, which touch no id, are left out.
NextIds ==
    \/ GroupStartNext
    \/ GroupStartReturn
    \/ GroupCloseCall
    \/ GroupCloseNext
    \/ GroupCloseReturn
    \/ CloseAck(Owner)
    \/ CloseTimeout(Owner)
    \/ Tick
    \/ \E t \in Tasks : SigJobRecv(t)
    \/ \E t \in Tasks : SigJobError(t)
    \/ \E t \in Tasks : SigJobAck(t)
    \/ \E t \in Tasks : RunnerCloseErrBus(t)
    \/ \E t \in Tasks : RunnerCloseAck(t)
    \/ \E t \in Ungrouped, ctx \in {Background, Ctx("j", "j")} : RunCall(t, ctx)

SpecIds == InitGroup /\ [][NextIds]_vars

(* ------------------------------- SpecCtx ------------------------------ *)

\* What a caller's context may carry under a key: nothing, the empty string,
\* or a name of the caller's own.
CtxValues == {Absent, "", "j"}

\* The contexts handed to LifeSpan.Error.
Ctxs == {Ctx(j, g) : j \in CtxValues, g \in CtxValues}

\* The contexts handed to Run: nil, one that carries no id, one that carries
\* both.
RunCtxs == {NilContext, Background, Ctx("j", "j")}

\* The errors handed to LifeSpan.Error.
Errs == {1, 2}

\* The work function calls span.Error(ctx, err) with a context and an error
\* of its choice; the call returns when its send is done.
ErrorCall(t, ctx, err) ==
    /\ Running
    /\ job[t] = "running"
    /\ Produced < MaxMsgs
    /\ ErrorSend(t, ctx, err)
    /\ UNCHANGED <<chClosed, fwd, held>>
    /\ UNCHANGED <<busVars, subVars, spanVars, callVars, panic>>
    /\ UNCHANGED <<idVars, groupVars, restVars>>

\* Tasks started with any context, whose work functions report errors with
\* any context, the forwarders and a subscriber.
NextCtx ==
    \/ \E t \in Handles, ctx \in RunCtxs : RunCall(t, ctx)
    \/ \E t \in Handles, ctx \in Ctxs, err \in Errs : ErrorCall(t, ctx, err)
    \/ \E t \in Handles : FwdRecv(t)
    \/ \E t \in Handles : FwdSend(t)
    \/ Receive("r1")

SpecCtx == Init /\ [][NextCtx]_vars

(* ------------------------- CentralMessageBus: claims ------------------ *)

\* C1: the sink is closed only after every forwarding goroutine Register
\* started has finished, and no forwarder ever sends on the closed sink.
C1_SinkClosedAfterForwarders ==
    /\ busClosed => \A s \in Sources : fwd[s] \in {"none", "done"}
    /\ panic # SendClosedPanic("forwarder")

\* C1's case: the sink is closed, after a forwarder that carried a message
\* into it has finished.
C1_Witness ==
    /\ busClosed
    /\ \E s \in Sources : fwd[s] = "done" /\ sent[s] > 0 /\ ch[s] = <<>>

\* C2: a Register call on a bus whose closed flag is set panics, starts no
\* forwarder and leaves the wait-group counter as it is.
C2_RegisterOnClosedPanics ==
    [][\A s \in Sources :
         (closed /\ RegisterCall(s)) =>
           /\ panic' = RegisterPanic
           /\ wg' = wg
           /\ fwd' = fwd]_vars

\* C2's case: Register has panicked while a Close call was still waiting for
\* the forwarders.
C2_Witness ==
    /\ panic = RegisterPanic
    /\ \E k \in BusClosers : bpc[k] = "wait"
    /\ wg > 0

\* C8: a Publish call can always be made and completes at once: with a free
\* slot the message is enqueued, else it is dropped and the queue is
\* unchanged; on a bus of capacity 1, two Publish calls with no reader and no
\* other producer leave exactly the first message.
C8_PublishNeverBlocks ==
    /\ [](Running /\ Produced < MaxMsgs => ENABLED PublishCall)
    /\ [][(PublishCall /\ ~busClosed) =>
            /\ bus' = IF Len(bus) < bufferSize
                      THEN Append(bus, Error("", "", npub + 1))
                      ELSE bus
            /\ panic' = panic]_vars
    /\ [](/\ Running
          /\ bufferSize = 1
          /\ npub = 2
          /\ got["r1"] = {}
          /\ \A s \in Sources : sent[s] = 0
          => bus = <<Error("", "", 1)>>)

\* C8's case: capacity 1, two Publish calls, no reader, no other producer.
C8_Witness ==
    /\ Running
    /\ bufferSize = 1
    /\ npub = 2
    /\ got["r1"] = {}
    /\ \A s \in Sources : sent[s] = 0

\* C10: Publish on a closed bus does not panic the publisher.
C10_PublishAfterCloseNoPanic == panic # SendClosedPanic("Publish")

(* --------------------------- LifeSpan: claims ------------------------- *)

\* C3: a span.Close() call that finds Sig's one slot occupied returns at
\* once, without waiting on Ack, adds no second signal and leaves Sig and
\* Ack as they are.
C3_CloseOnFullSigIsNoOp ==
    [][\A c \in Callers, t \in Handles :
         (Sig[t] = SigCap /\ CloseCall(c, t)) =>
           /\ call'[c] = Idle
           /\ res'[c] = Returned("contention", t)
           /\ Sig' = Sig
           /\ Ack' = Ack
           /\ ackClosed' = ackClosed]_vars

\* C3's case: a call returned on contention and the slot is still occupied.
C3_Witness ==
    \E c \in Callers, t \in Handles :
        /\ res[c] = Returned("contention", t)
        /\ Sig[t] = SigCap
        /\ job[t] = "running"

\* C4: every span.Close() call returns, whatever the task does: a waiting
\* call has waited no more than the timeout, can return once the timeout is
\* reached, is never stopped for good, and in the end has returned.
C4_CloseAlwaysReturns ==
    /\ [](\A c \in Callers :
            call[c].pc = "wait" =>
              /\ call[c].waited <= Timeout
              /\ call[c].waited = Timeout => ENABLED CloseTimeout(c)
              /\ \/ ENABLED Tick
                 \/ \E d \in Callers : ENABLED CloseAck(d) \/ ENABLED CloseTimeout(d))
    /\ \A c \in Callers : (call[c].pc = "wait") ~> (call[c].pc = "idle")

\* C4's case: a call returned by the timer while the task, which never
\* acknowledged, is still running.
C4_Witness ==
    \E c \in Callers, t \in Handles :
        /\ res[c] = Returned("timeout", t)
        /\ call[c] = Idle
        /\ job[t] = "running"
        /\ Ack[t] = 0

\* C5: no step of span.Close() closes Ack, closes the task's error channel,
\* cancels the context, moves the task's goroutine or panics.
C5_CloseIsAdvisory ==
    [][\A c \in Callers :
         (CloseAck(c) \/ CloseTimeout(c) \/ \E t \in Handles : CloseCall(c, t)) =>
           /\ ackClosed' = ackClosed
           /\ chClosed' = chClosed
           /\ ctxDone' = ctxDone
           /\ job' = job
           /\ panic' = panic]_vars

\* C5's case: a call timed out and the task is still running, its Ack and
\* error channel open and its context not cancelled.
C5_Witness ==
    \E c \in Callers, t \in Handles :
        /\ res[c] = Returned("timeout", t)
        /\ job[t] = "running"
        /\ ~ackClosed[t]
        /\ ~chClosed[t]
        /\ ~ctxDone

\* C6: Ack is closed only by the runner's deferred call, after the work
\* function has returned, and once: it is never closed while the work
\* function runs, a closed Ack stays closed, no second close panics, and
\* after the return the deferred calls can run.
C6_AckClosedOnceAfterReturn ==
    /\ [](\A t \in Handles :
            /\ ackClosed[t] <=> job[t] = "done"
            /\ job[t] = "returned" => ENABLED RunnerCloseErrBus(t)
            /\ job[t] = "errclosed" => ENABLED RunnerCloseAck(t))
    /\ [](panic # CloseClosedPanic("Run"))
    /\ [][\A t \in Handles :
            ackClosed'[t] # ackClosed[t] =>
              /\ ~ackClosed[t]
              /\ job[t] = "errclosed"
              /\ RunnerCloseAck(t)]_vars

\* C6's case: the work function returned after it read Sig, and Ack is closed.
C6_Witness ==
    \E t \in Handles :
        /\ ackClosed[t]
        /\ job[t] = "done"
        /\ nclose[t] > 0
        /\ Sig[t] = 0

\* C7: the first span.Close() call on a handle whose Ack is already closed
\* sends the signal and returns in the same step by the receive from Ack,
\* with no panic and not by the timer.
C7_CloseAfterExit ==
    [][\A c \in Callers, t \in Handles :
         (ackClosed[t] /\ nclose[t] = 0 /\ CloseCall(c, t)) =>
           /\ Sig'[t] = Sig[t] + 1
           /\ call'[c] = Idle
           /\ res'[c] = Returned("ack", t)
           /\ ackClosed' = ackClosed
           /\ panic' = NoPanic]_vars

\* C7's case: one call was made on a handle whose task had exited, and it
\* returned by the receive from the closed Ack.
C7_Witness ==
    \E c \in Callers, t \in Handles :
        /\ ackClosed[t]
        /\ nclose[t] = 1
        /\ res[c] = Returned("ack", t)
        /\ Sig[t] = SigCap
        /\ Ack[t] = 0

\* C9: a task inside span.Error can always complete the call without any
\* subscriber reading the sink: its error channel has room, or its forwarder
\* can make room.
C9_ErrorNeverBlocks ==
    (\A r \in Readers : got[r] = {}) =>
        \A t \in Tasks :
            job[t] = "error" =>
              \/ Len(ch[t]) < BufferSize
              \/ fwd[t] = "recv"
              \/ Len(bus) < bufferSize

\* C11: CentralMessageBus.Close called twice, one call after the other or
\* both at once, does not panic: only one call ever goes on to wait and to
\* close the sink, the sink is closed once and stays closed, a call that
\* finds the flag set changes nothing else, and no step of a Close call
\* touches the messages buffered in the sink, which stay readable.
C11_BusCloseTwice ==
    /\ [](panic # CloseClosedPanic("Close"))
    /\ [](Cardinality({k \in BusClosers : bpc[k] = "wait"}) <= 1)
    /\ [](busClosed /\ bus # <<>> /\ Running => ENABLED Receive("r1"))
    /\ [][\A k \in BusClosers :
            (closed /\ BusCloseCall(k)) =>
              /\ bpc' = [bpc EXCEPT ![k] = "done"]
              /\ UNCHANGED <<bufferSize, bus, busClosed, closed, wg>>
              /\ UNCHANGED <<srcVars, subVars, panic>>]_vars
    /\ [][\A k \in BusClosers :
            (BusCloseCall(k) \/ BusCloseWait(k)) => bus' = bus]_vars
    /\ [][busClosed => busClosed']_vars

\* C11's case: both callers of Close have returned, the sink is closed and
\* still holds a message.
C11_Witness ==
    /\ Running
    /\ \A k \in BusClosers : bpc[k] = "done"
    /\ busClosed
    /\ bus # <<>>

\* C12: a second span.Close() call on a handle never panics and never blocks
\* beyond the handshake bound.  It can always be made; when the task exited
\* before the first call, or ignored the first signal, Sig is still occupied
\* and the call returns at once on contention; when the task drained the
\* first signal and exited, the call sends and returns at once by the
\* receive from the closed Ack; in every other case it waits no longer than
\* the timeout and returns.
C12_SpanCloseTwice ==
    /\ [](panic = NoPanic)
    /\ [](\A c \in Callers, t \in Handles :
            (call[c].pc = "idle" /\ job[t] # "unstarted" /\ nclose[t] = 1)
              => ENABLED CloseCall(c, t))
    /\ [][\A c \in Callers, t \in Handles :
            (nclose[t] = 1 /\ CloseCall(c, t)) =>
              /\ panic' = NoPanic
              /\ Sig[t] = SigCap =>
                   call'[c] = Idle /\ res'[c] = Returned("contention", t)
              /\ (Sig[t] = 0 /\ ackClosed[t]) =>
                   call'[c] = Idle /\ res'[c] = Returned("ack", t)
              /\ (Sig[t] = 0 /\ ~ackClosed[t] /\ Ack[t] = 0) =>
                   call'[c] = [pc |-> "wait", task |-> t, waited |-> 0]]_vars
    /\ [](\A c \in Callers : call[c].pc = "wait" => call[c].waited <= Timeout)
    /\ \A c \in Callers :
         (call[c].pc = "wait" /\ nclose[call[c].task] = 2) ~> (call[c] = Idle)

\* C12's case: the task ignored the first signal, the first call timed out,
\* and the second call has returned on contention.
C12_Witness ==
    \E t \in Handles :
        /\ nclose[t] = 2
        /\ job[t] = "running"
        /\ Sig[t] = SigCap
        /\ res["c1"] = Returned("timeout", t)
        /\ res["c2"] = Returned("contention", t)
        /\ \A c \in Callers : call[c] = Idle

\* C13: a Close call on the bus blocks only while some registered source is
\* still open: once every registered source has been closed by its owner, a
\* waiting Close call can go on to close the sink, or some forwarder can take
\* a step towards finishing, with no help from a reader of the sink.
C13_CloseBlocksOnlyOnOpenSource ==
    \A k \in BusClosers :
        (/\ Running
         /\ bpc[k] = "wait"
         /\ \A s \in Sources : fwd[s] # "none" => chClosed[s])
        => \/ ENABLED BusCloseWait(k)
           \/ \E s \in Sources : ENABLED FwdRecv(s) \/ ENABLED FwdSend(s)

\* The sources that were registered with the bus.
Registered == {s \in Sources : fwd[s] # "none"}

\* The messages a sequence holds, as a set.
Range(q) == {q[i] : i \in 1..Len(q)}

\* C14: fan-in.  With no direct Publish, once Close has closed the sink
\* (every registered source closed and its forwarder finished) the sink holds
\* no more messages than the registered sources were given, each of them a
\* message some registered source was given, none twice; together with what
\* the reader took they are all the messages given; and with nothing read
\* (so the capacity was enough for them all) the sink holds exactly as many
\* as were given.
C14_FanIn ==
    (Running /\ busClosed /\ npub = 0) =>
        /\ \A s \in Registered : chClosed[s] /\ ch[s] = <<>> /\ fwd[s] = "done"
        /\ Len(bus) <= Sum(sent, Registered)
        /\ \A i \in 1..Len(bus) :
             \E s \in Registered : \E n \in 1..sent[s] : bus[i] = Error(ToString(s), "", n)
        /\ Cardinality(Range(bus)) = Len(bus)
        /\ Range(bus) \cap got["r1"] = {}
        /\ Len(bus) + Cardinality(got["r1"]) = Sum(sent, Registered)
        /\ got["r1"] = {} =>
             /\ Len(bus) = Sum(sent, Registered)
             /\ bufferSize >= Sum(sent, Registered)

\* C14's case: every source was registered, given a message and closed,
\* Close has returned, nothing was read, and the sink holds them all.
C14_Witness ==
    /\ Running
    /\ busClosed
    /\ \E k \in BusClosers : bpc[k] = "done"
    /\ npub = 0
    /\ got["r1"] = {}
    /\ Registered = Sources
    /\ \A s \in Sources : sent[s] >= 1
    /\ Len(bus) = Sum(sent, Sources)

\* The messages of source s that the sequence q holds, in q's order.
FromSource(q, s) ==
    LET Mine(m) == m.JobID = ToString(s) IN SelectSeq(q, Mine)

\* The messages of source s on their way, from the nearest to a reader to the
\* last written: those in the sink, the one its forwarder holds, those in the
\* source channel.
InFlight(s) == FromSource(bus, s) \o held[s] \o ch[s]

\* C15: the messages of one source reach the sink in the order they were
\* written to the source, whatever the other forwarders and Publish do: the
\* messages of a source that are in the sink, held by its forwarder and in
\* its channel are, in that order, the last ones written, in the order
\* written, and those a reader took from the sink are all the earlier ones.
C15_SourceOrder ==
    \A s \in Sources :
        /\ Len(InFlight(s)) <= sent[s]
        /\ \A i \in 1..Len(InFlight(s)) :
             InFlight(s)[i] = Error(ToString(s), "", sent[s] - Len(InFlight(s)) + i)
        /\ {m \in got["r1"] : m.JobID = ToString(s)}
             = {Error(ToString(s), "", n) : n \in 1..(sent[s] - Len(InFlight(s)))}

\* C15's case: two messages of one source are in the sink, in the order
\* written, while another source's forwarder is running.
C15_Witness ==
    \E s, o \in Sources :
        /\ s # o
        /\ fwd[o] = "recv"
        /\ FromSource(bus, s) = <<Error(ToString(s), "", 1), Error(ToString(s), "", 2)>>

(* ----------------------- tasks and the bus: claims -------------------- *)

\* C16: every error a task reports through its handle reaches the central
\* sink and the subscriber that reads it, with the task's attribution, also
\* when it is reported on reading the close signal, just before the
\* acknowledgement: the record is built from the task's own ids, it stays as
\* built in the task's channel and in its forwarder's hands, and once the
\* Error call has returned the subscriber receives it.
C16_ReportedErrorReachesSink ==
    /\ [](\A t \in Tasks :
            \A m \in Range(ch[t]) \cup Range(held[t]) :
                m = Error(jobID[t], UUID, 1) /\ jobID[t] \in DOMAIN Spans)
    /\ \A t \in Tasks :
         (sent[t] = 1) ~> (Error(jobID[t], UUID, 1) \in got["r1"])

\* C16's case: a task reported its error on reading the signal, acknowledged
\* and returned, and the subscriber has the record while the sink is open.
C16_Witness ==
    \E t \in Tasks :
        /\ job[t] = "done"
        /\ Ack[t] = 0
        /\ res[Owner] = Returned("ack", t)
        /\ Error(jobID[t], UUID, 1) \in got["r1"]
        /\ ~closed

\* The error record the task stored under id in the group reports.
Report(id) == Error(id, UUID, 1)

\* C17: for the tasks of a group that each report one error on reading the
\* close signal and then return: once every unit was started, Close was
\* called on every task and the central bus is closed, every task has
\* returned, and the records in the sink and those the subscriber has
\* drained from it are exactly one record per task, each carrying the id its
\* task is stored under.
C17_OneRecordPerTask ==
    (/\ Running
     /\ busClosed
     /\ started = Jobs
     /\ \A t \in 1..Jobs : nclose[t] >= 1) =>
        /\ Cardinality(DOMAIN Spans) = Jobs
        /\ \A id \in DOMAIN Spans :
             /\ job[Spans[id]] \in {"errclosed", "done"}
             /\ sent[Spans[id]] = 1
        /\ Range(bus) \cup got["r1"] = {Report(id) : id \in DOMAIN Spans}
        /\ Range(bus) \cap got["r1"] = {}
        /\ Len(bus) + Cardinality(got["r1"]) = Jobs
        /\ bus = <<>> => Cardinality(got["r1"]) = Jobs

\* C17's case: Group.Close has returned, the bus is closed, the sink is
\* drained and the subscriber holds one record for each of the NTasks tasks.
C17_Witness ==
    /\ Running
    /\ busClosed
    /\ gpc = "closed"
    /\ Jobs = NTasks
    /\ Jobs >= 2
    /\ bus = <<>>
    /\ got["r1"] = {Report(id) : id \in DOMAIN Spans}
    /\ Cardinality(got["r1"]) = Jobs

\* C18: a LifeSpan.Error(ctx, err) call adds exactly one record to the
\* task's error channel, at its end, and nothing anywhere else: the record's
\* JobID and GroupID are the job_id and group_id that ctx carries, each the
\* empty string when ctx carries none, whatever the ids of the task's own
\* context are, and its Error is err.
C18_ErrorRecord ==
    [][\A t \in Handles, ctx \in Ctxs, err \in Errs :
         ErrorCall(t, ctx, err) =>
           /\ Len(ch'[t]) = Len(ch[t]) + 1
           /\ SubSeq(ch'[t], 1, Len(ch[t])) = ch[t]
           /\ ch'[t][Len(ch'[t])] =
                [JobID |-> IF ctx.job_id \in {"j", ""} THEN ctx.job_id ELSE "",
                 GroupID |-> IF ctx.group_id \in {"j", ""} THEN ctx.group_id ELSE "",
                 Error |-> err]
           /\ \A o \in Ids \ {t} : ch'[o] = ch[o]
           /\ bus' = bus]_vars

\* C18's case: a task started with a context that carries both ids reported
\* through a context that carries neither, and the subscriber received the
\* record with both ids empty.
C18_Witness ==
    \E t \in Handles, err \in Errs :
        /\ jobID[t] = "j"
        /\ groupID[t] = "j"
        /\ [JobID |-> "", GroupID |-> "", Error |-> err] \in got["r1"]

(* ------------------------------ Group: claims ------------------------- *)

C20_GroupCloseKeepsEntries ==
    /\ [][(gpc \in {"started", "closing", "closed"}) => Spans' = Spans]_vars
    /\ [][GroupCloseNext =>
            \E id \in DOMAIN Spans \ visited :
                /\ visited' = visited \cup {id}
                /\ nclose'[Spans[id]] = nclose[Spans[id]] + 1
                /\ \/ Sig'[Spans[id]] = Sig[Spans[id]] + 1
                   \/ Sig[Spans[id]] = SigCap /\ Sig' = Sig]_vars
    /\ [](gpc = "closing" /\ visited # DOMAIN Spans => ~ENABLED GroupCloseReturn)
    /\ [](gpc = "closed" =>
            /\ visited = DOMAIN Spans
            /\ Cardinality(DOMAIN Spans) = Jobs
            /\ \A id \in DOMAIN Spans : nclose[Spans[id]] >= 1)

\* C20's case: Group.Close has returned for a group of NTasks tasks, one of
\* which has not read its signal yet, and the map still holds every entry.
C20_Witness ==
    /\ Running
    /\ gpc = "closed"
    /\ Jobs = NTasks
    /\ Jobs >= 2
    /\ Cardinality(DOMAIN Spans) = Jobs
    /\ \E id \in DOMAIN Spans :
         job[Spans[id]] = "running" /\ Sig[Spans[id]] = SigCap

\* C21: Group.Close takes no longer than one handshake timeout in all,
\* however many of its tasks never acknowledge.
C21_GroupCloseWithinOneTimeout ==
    gpc \in {"closing", "closed"} => clock <= Timeout

\* C22: Run leaves a job_id the context carries as it is and mints one, which
\* no task or map entry has yet, only when the context carries none; the
\* group_id is the one the context carries.  Every task started by Start
\* carries the group's id as group_id and the job_id Start gave it, which no
\* other started task has; a task started by Run with a context that carries
\* no group_id has the empty group id.
C22_RunKeepsOrMintsJobID ==
    /\ [][\A t \in Ungrouped, ctx \in {Background, Ctx("j", "j")} :
            (RunCall(t, ctx) /\ ~closed) =>
              /\ ctx.job_id # Absent => jobID'[t] = ctx.job_id
              /\ ctx.job_id = Absent =>
                   /\ jobID'[t] \in UUIDs \ (Minted \cup {UUID})
                   /\ \A o \in Tasks \ {t} : jobID'[t] # jobID[o]
              /\ groupID'[t] = ctx.group_id
              /\ ctx.group_id = Absent => GroupIDFromContext(TaskCtx(t)') = ""]_vars
    /\ [](\A id \in DOMAIN Spans :
            /\ jobID[Spans[id]] = id
            /\ GroupIDFromContext(TaskCtx(Spans[id])) = UUID
            /\ \A o \in Tasks \ {Spans[id]} :
                 job[o] # "unstarted" => JobIDFromContext(TaskCtx(o)) # id)

\* C22's case: Start has started the group's task with the id it minted, and
\* a task started by Run outside the group with the background context has
\* another minted id and the empty group id.
C22_Witness ==
    /\ Running
    /\ gpc = "started"
    /\ Jobs = 1
    /\ jobID[1] \in DOMAIN Spans
    /\ groupID[1] = UUID
    /\ \E o \in Ungrouped :
         /\ job[o] = "running"
         /\ jobID[o] \in UUIDs \ {jobID[1]}
         /\ GroupIDFromContext(TaskCtx(o)) = ""

C24_RunWithNilContext ==
    [][\A t \in Handles :
         RunCall(t, NilContext) => job'[t] = "running" /\ panic' = NoPanic]_vars

\* C25: a constructed bus has at least the minimum capacity, whatever size
\* was asked for, so that the first message published on a fresh bus is in
\* the sink for a reader to take.
C25_CapacityAtLeastMinimum ==
    /\ bufferSize >= BufferSize
    /\ (Running /\ ~busClosed /\ npub = 1 /\ got["r1"] = {})
         => bus = <<Error("", "", 1)>>

\* C26: all subscribers read one queue.  A receive by any subscriber takes
\* the message at the head of the sink out of the sink and gives it to that
\* subscriber alone; no message is received by two subscribers, a received
\* message is no longer in the sink, and the messages received and those in
\* the sink are no more than were handed to the bus.
C26_SharedQueue ==
    /\ [][\A r \in Readers :
            Receive(r) =>
              /\ got'[r] = got[r] \cup {Head(bus)}
              /\ bus' = Tail(bus)
              /\ \A o \in Readers \ {r} : got'[o] = got[o]]_vars
    /\ [](\A r, o \in Readers : r # o => got[r] \cap got[o] = {})
    /\ [](\A r \in Readers : got[r] \cap Range(bus) = {})
    /\ [](Len(bus) + Sum([r \in Readers |-> Cardinality(got[r])], Readers) <= Produced)

\* C26's case: two messages went through the sink, and each subscriber
\* received one of them.
C26_Witness ==
    /\ Cardinality(got["r1"]) = 1
    /\ Cardinality(got["r2"]) = 1
    /\ got["r1"] # got["r2"]
    /\ bus = <<>>

\* The fields of CentralMessageBus[T] (the mutex apart): all that a caller
\* could read of a bus, were they exported.
BusFields == <<closed, wg, bus, busClosed, bufferSize>>

\* C27: the bus makes every message dropped by Publish observable: a Publish
\* call that finds the sink full, and so drops its message, changes a field
\* of the bus (a count of the drops, which goes up by one).
C27_DropIsCounted ==
    [][(PublishCall /\ ~busClosed /\ Len(bus) >= bufferSize) =>
         BusFields' # BusFields]_vars

\* C28: for a task that polls Sig and its context and returns once either
\* is ready: a span.Close() call that finds Sig's slot free puts the signal
\* there; once a signal is there or the context is cancelled the task
\* acknowledges, returns and its Ack is closed; a waiting call has waited
\* less than the timeout, its timer's case can never proceed, and it returns
\* by the receive from Ack; no call returns by the timer.
C28_PollingTaskAcknowledges ==
    /\ [][\A c \in Callers, t \in Handles :
            (CloseCall(c, t) /\ Sig[t] < SigCap) => Sig'[t] = Sig[t] + 1]_vars
    /\ [](\A c \in Callers :
            /\ res[c].out # "timeout"
            /\ ~ENABLED CloseTimeout(c)
            /\ call[c].pc = "wait" => call[c].waited < Timeout)
    /\ \A t \in Handles :
         (job[t] # "unstarted" /\ (Sig[t] > 0 \/ ctxDone))
           ~> (job[t] = "done" /\ ackClosed[t])
    /\ \A c \in Callers :
         (call[c].pc = "wait") ~> (call[c] = Idle /\ res[c].out = "ack")

\* C28's case: the task was asleep when Close was called, a second passed
\* while the call waited, the task read the signal, acknowledged and
\* returned, and the call returned by the receive from Ack.
C28_Witness ==
    \E c \in Callers, t \in Handles :
        /\ res[c] = Returned("ack", t)
        /\ call[c] = Idle
        /\ job[t] = "done"
        /\ ackClosed[t]
        /\ nclose[t] = 1
        /\ Sig[t] = 0
        /\ Ack[t] = 0
        /\ ~ctxDone

\* C29: in RunWithClose nothing stops for good, however many signals were
\* received and whether or not the errors of j.Run and j.Close were read:
\* once j.Close has returned an error, its send on err can proceed without
\* any reader of err, so that the acknowledgement follows; and the control
\* loop, once it has taken a signal, can pass it on (sig has room, or its
\* reader has yet to read it), so that it comes back to receive the
\* acknowledgement and exits.
C29_CloseThenAckThenExit ==
    /\ rwc.close = "err" => rwc.err < ChanCap
    /\ rwc.ctl = "send" => (rwc.sig < ChanCap \/ rwc.close = "sig")

\* C30: the Log a Handle call puts on the bus carries, in JobID, a job_id
\* that the context, the stored attributes or the record's own attributes
\* gave, whenever one of them gave any, and likewise in GroupID for
\* group_id; and its Metadata holds exactly the other attributes' keys.
C30_HandleSurfacesIds ==
    [][\A ctx \in LogCtxs, r \in Records :
         (Handle(ctx, r) /\ Len(logger'.bus) = Len(logger.bus) + 1) =>
            LET log   == logger'.bus[Len(logger'.bus)]
                given == {logger.attrs[i] : i \in DOMAIN logger.attrs}
                           \cup {r.Attrs[i] : i \in DOMAIN r.Attrs}
                jids  == ({ctx.job_id} \ {Absent})
                           \cup {a.Value : a \in {x \in given : x.Key = jobIDKey}}
                gids  == ({ctx.group_id} \ {Absent})
                           \cup {a.Value : a \in {x \in given : x.Key = groupIDKey}}
            IN  /\ jids # {} => log.JobID \in jids
                /\ gids # {} => log.GroupID \in gids
                /\ DOMAIN log.Metadata
                     = {a.Key : a \in given} \ {jobIDKey, groupIDKey}]_vars

\* C31: a task whose Ack channel is closed has its error channel closed
\* already, and from then on no error of that task is written into that
\* channel.
C31_ErrBusClosedBeforeAck ==
    /\ [](\A t \in Tasks : ackClosed[t] => chClosed[t])
    /\ [][\A t \in Tasks : ackClosed[t] => sent'[t] = sent[t]]_vars

\* A task that reported an error has returned and both its channels are
\* closed, while another task of the group is still running.
C31_Witness ==
    \E t, u \in Tasks :
        /\ ackClosed[t] /\ chClosed[t] /\ sent[t] = 1
        /\ job[u] = "running" /\ ~chClosed[u]

\* C32, as stated: whenever a call of CentralMessageBus.Close has returned,
\* the sink is closed, a second call made while the first still waits for
\* the forwarders included.
C32_SinkClosedWhenAnyCloseReturns ==
    \A k \in BusClosers : bpc[k] = "done" => busClosed

\* C32, amended: the call of Close that set the closed flag returns only
\* once it has closed the sink; a call that found the flag set returns at
\* once, and when it has returned the sink is closed or the call that set
\* the flag is still waiting for the forwarders and will close it.
C32_SinkClosedWhenFirstCloseReturns ==
    /\ [][\A k \in BusClosers :
            (bpc[k] = "wait" /\ bpc'[k] = "done") => (wg = 0 /\ busClosed')]_vars
    /\ [][\A k \in BusClosers :
            (bpc[k] = "idle" /\ bpc'[k] = "done") => (closed /\ busClosed' = busClosed)]_vars
    /\ []((\E k \in BusClosers : bpc[k] = "done")
            => (busClosed \/ \E j \in BusClosers : bpc[j] = "wait"))

\* A second call of Close has returned while the first still waits for a
\* forwarder, the sink being open.
C32_Witness ==
    \E k, j \in BusClosers :
        /\ bpc[k] = "done"
        /\ bpc[j] = "wait"
        /\ wg > 0
        /\ ~busClosed

\* C33: forwarders never drop.  Every message written into a source
\* channel is in exactly one place: in the source channel, in the hands of
\* the source's forwarder, in the sink, or with the reader; a forwarder that
\* holds a message while the sink is full cannot complete its send; and a
\* forwarder lets go of the message it holds only by putting it at the end
\* of the sink.
C33_ForwardersNeverDrop ==
    /\ [](\A s \in Sources : \A n \in 1..sent[s] :
            LET m == Error(ToString(s), "", n)
            IN  Cardinality({i \in 1..Len(ch[s]) : ch[s][i] = m})
                  + Cardinality({i \in 1..Len(held[s]) : held[s][i] = m})
                  + Cardinality({i \in 1..Len(bus) : bus[i] = m})
                  + (IF m \in got["r1"] THEN 1 ELSE 0) = 1)
    /\ [](\A s \in Sources :
            (Running /\ fwd[s] = "send" /\ ~busClosed /\ Len(bus) >= bufferSize)
              => (held[s] # <<>> /\ ~ENABLED FwdSend(s)))
    /\ [][\A s \in Sources :
            (held[s] # <<>> /\ held'[s] # held[s])
              => (held'[s] = <<>> /\ bus' = Append(bus, held[s][1]))]_vars

\* A forwarder holds the second message of its source in front of a sink
\* that is full with the first.
C33_Witness ==
    \E s \in Sources :
        /\ Running
        /\ fwd[s] = "send"
        /\ held[s] = <<Error(ToString(s), "", 2)>>
        /\ bus = <<Error(ToString(s), "", 1)>>
        /\ Len(bus) = bufferSize
        /\ ~busClosed

\* C34: a Run call made once the default central error bus has its closed
\* flag set panics in Register, and the task it was to start stays as it
\* was: its work function is not started, no handle exists for it (its Sig
\* and Ack are untouched and it has no context), no forwarder is started on
\* its error channel and the wait-group counter is not raised; after the
\* panic nothing of the process runs, so none of this happens later.
C34_RunOnClosingBusPanics ==
    /\ [][\A t \in Tasks :
            (closed /\ RunCall(t, Background)) =>
              /\ panic' = RegisterPanic
              /\ job'[t] = "unstarted"
              /\ fwd'[t] = "none"
              /\ wg' = wg
              /\ UNCHANGED <<Sig, Ack, ackClosed, jobID, groupID, ch, chClosed>>]_vars
    /\ [][panic # RegisterPanic]_vars
    /\ [](panic = RegisterPanic => \E t \in Tasks : job[t] = "unstarted" /\ fwd[t] = "none")

\* Run has panicked in Register while a Close call was still waiting for
\* the forwarder of a task started earlier, which is still running.
C34_Witness ==
    /\ panic = RegisterPanic
    /\ \E k \in BusClosers : bpc[k] = "wait"
    /\ ~busClosed
    /\ \E t, u \in Tasks :
          /\ job[t] = "unstarted" /\ fwd[t] = "none"
          /\ job[u] = "running" /\ fwd[u] = "recv"

====
